---- MODULE Spec2Model ----
(***************************************************************************)
(* A model of M5PaperUI (src/src/main.cpp): the retained-mode scene graph  *)
(* of UiObj / UiLabel / UiFrame / UiButton / UiImage / UiModal / UiManager *)
(* nodes, its dirty-rectangle computation, the render pipeline, the touch  *)
(* dispatch and the 8-bit to 4-bit packing.                                *)
(*                                                                         *)
(* The scene is a function from node ids to node records; every method of  *)
(* the source is an operator from a scene to a scene, and every action of  *)
(* the state machine applies one public method to the current scene.       *)
(***************************************************************************)
EXTENDS Integers, Sequences, FiniteSets, TLC

VARIABLES
    ui,         \* the scene: node id -> the fields of that object
    result,     \* UiModal::result
    ops,        \* number of application calls made so far
    budget,     \* the number of application calls the run may make
    lastOp,     \* the most recent call and its arguments
    disp,       \* what the latest updateDisplay observed and issued
    touch,      \* what the latest touchEvent delivered and returned
    pk,         \* packToGrey on one row: the source pixels and the bytes
    lb,         \* an autosizing label: inputs and resulting object
    ml,         \* a multi-line label: its text and the line loop's position
    cp,         \* copyToParent on one child: geometry and the row loop
    ev          \* the event loop: its position and the statics of processEvents

vars == <<ui, result, ops, budget, lastOp, disp, touch, pk, lb, ml, cp, ev>>

----------------------------------------------------------------------------
(* Bounds of the model                                                     *)

MaxOps == 1             \* application calls after setup() in a rendering run
MaxTouchOps == 2        \* application calls and taps in a touch run
MaxRowPairs == 2        \* pixel pairs in the longest row given to packToGrey
MaxTextWidth == 20      \* widest text measured for the autosizing constructor
MaxFontHeight == 14     \* tallest font measured for the autosizing constructor
MaxAdds == 2            \* add() calls after the constructors in an add run
MaxShowOps == 3         \* hide(), setText() and show() calls in a show run
MaxTextLen == 4         \* characters in the longest text laid out in lines
MaxSide == 3            \* width and height of the surfaces copied row by row
MaxTaps == 2            \* touchEvent calls in one processEvents call
MaxCalls == 2           \* processEvents calls

----------------------------------------------------------------------------
(* Program constants                                                       *)

screenWidth == 540
screenHeight == 960
LAYER_BG == 0
LAYER_LOWER == 1
LAYER_CENTRE == 2
LAYER_UPPER == 3
LAYER_TOP == 4
LAYER_OVERLAY == 5
TextSize == 3           \* UiLabel::init: this->textSize = 3
LabelPad == 10          \* UiLabel::init: xPad = yPad = 10
LabelOutline == 10      \* UiLabel::init: setOutline(1, 10): colour 1, thickness 10
ButtonOutline == 5      \* UiButton::UiButton: setOutline(15, 5, 5)
FrameOutline == 2       \* UiFrame::init: setOutline(10, 2, 10)
ModalOutline == 4       \* UiModal::createElements: setOutline(15, 4, 10)
ModalX == 50
ModalY == 200
ModalWidth == 400
ModalHeight == 300
TitleHeight == 30

(* The text-metrics service of the sprite library for the built-in font:   *)
(* a glyph is 6 x 8 pixels, scaled by the text size.                       *)
TextWidthOf(text, size) == Len(text) * 6 * size
FontHeightOf(size) == 8 * size

----------------------------------------------------------------------------
(* Arithmetic of the C++ source                                            *)

Min(a, b) == IF a < b THEN a ELSE b
Max(a, b) == IF a > b THEN a ELSE b
\* int division truncates toward zero
CDiv(a, b) == IF a >= 0 THEN a \div b ELSE -((-a) \div b)

FoldSeq(Op(_, _), acc, s) ==
    LET f[i \in 0..Len(s)] == IF i = 0 THEN acc ELSE Op(f[i - 1], s[i])
    IN  f[Len(s)]

Area(ax, ay, aw, ah) == [x |-> ax, y |-> ay, width |-> aw, height |-> ah]
ZeroArea == Area(0, 0, 0, 0)

----------------------------------------------------------------------------
(* Node identities.  The manager, its modal and the modal's five controls  *)
(* always exist (UiManager::UiManager, UiModal::createElements); the user  *)
(* nodes are the objects the application constructs and adds.              *)

Root == 1
Modal == 2
CloseBtn == 3
TitleBar == 4
Content == 5
OkBtn == 6
CancelBtn == 7
LabelA == 8
LabelB == 9
ImageI == 10
FrameF == 11
QuoteBtn == 12
Nodes == 1..12
NoNode == 0

Kind(n) ==
    CASE n = Root -> "manager"
      [] n = Modal -> "modal"
      [] n \in {CloseBtn, OkBtn, CancelBtn, QuoteBtn} -> "button"
      [] n \in {TitleBar, Content, LabelA, LabelB} -> "label"
      [] n = ImageI -> "image"
      [] n = FrameF -> "frame"

IsFrame(n) == Kind(n) \in {"manager", "modal", "frame"}
IsLabel(n) == Kind(n) \in {"label", "button"}
UserNodes == {LabelA, LabelB, ImageI, FrameF}
Frames == {n \in Nodes : IsFrame(n)}

----------------------------------------------------------------------------
(* Construction                                                            *)

\* UiObj::initDefaults
initDefaults(o) ==
    [o EXCEPT !.visible = TRUE, !.layer = LAYER_CENTRE, !.updated = TRUE,
              !.initialised = TRUE, !.visibilityChanged = FALSE,
              !.parent = NoNode, !.newParent = FALSE, !.drawn = FALSE,
              !.exposed = FALSE, !.updateArea = ZeroArea]

\* The fields of an object before any constructor body has run.  Fields a
\* constructor never assigns are given here the value the model starts from.
RawObj ==
    [x |-> 0, y |-> 0, width |-> 0, height |-> 0, parent |-> NoNode,
     updated |-> FALSE, exposed |-> FALSE, hardwareDraw |-> FALSE,
     unbuffered |-> TRUE, visible |-> TRUE, initialised |-> FALSE,
     visibilityChanged |-> FALSE, newParent |-> FALSE, drawn |-> FALSE,
     layer |-> LAYER_CENTRE, updateArea |-> ZeroArea, exposeArea |-> ZeroArea,
     text |-> "", subInit |-> FALSE, autosize |-> FALSE,
     resizeNeeded |-> FALSE, hasPreRender |-> FALSE, hasOutline |-> FALSE,
     outlineThickness |-> 0, xPad |-> 0, yPad |-> 0, textSize |-> 0,
     objects |-> <<>>, hwFrame |-> FALSE, itemsChanged |-> FALSE,
     pushed |-> "none", drawCalls |-> 0, renderCalls |-> 0, holds |-> {},
     packArea |-> ZeroArea, packTop |-> ZeroArea, rendered |-> <<>>,
     shows |-> ""]

\* UiObj::UiObj()
UiObjDefault == initDefaults(RawObj)

\* UiObj::init
UiObj_init(o, px, py, pw, ph, unbuf) ==
    LET buffered == ~unbuf /\ pw > 0 /\ ph > 0
    IN  initDefaults([o EXCEPT !.x = px, !.y = py, !.width = pw,
                               !.height = ph, !.unbuffered = ~buffered,
                               !.hardwareDraw = unbuf])

\* UiObj::createBuffer
createBuffer(o, pw, ph) ==
    IF o.unbuffered
    THEN [o EXCEPT !.width = pw, !.height = ph, !.unbuffered = FALSE,
                   !.hardwareDraw = FALSE]
    ELSE o

\* UiLabel::setOutline
Label_setOutline(o, thickness) ==
    LET o1 == IF thickness > 0
              THEN [o EXCEPT !.hasOutline = TRUE, !.outlineThickness = thickness]
              ELSE [o EXCEPT !.hasOutline = FALSE]
    IN  [o1 EXCEPT !.resizeNeeded = TRUE, !.updated = TRUE]

\* UiLabel::init(x, y, width, height, text, unbuffered)
UiLabel_init(o, px, py, pw, ph, txt, unbuf) ==
    LET o1 == UiObj_init(o, px, py, pw, ph, unbuf)
        o2 == [o1 EXCEPT !.text = txt, !.hasOutline = FALSE,
                         !.textSize = TextSize, !.subInit = TRUE,
                         !.autosize = FALSE, !.resizeNeeded = FALSE,
                         !.xPad = LabelPad, !.yPad = LabelPad]
        o3 == Label_setOutline(o2, LabelOutline)
    IN  [o3 EXCEPT !.hasPreRender = FALSE, !.updated = TRUE]

\* UiLabel::resize
resize(o, pw, ph) ==
    [o EXCEPT !.width = pw, !.height = ph, !.updated = TRUE]

\* UiLabel::autoResize, given what surface.textWidth(text) and
\* surface.fontHeight(1) measure
autoResizeWith(o, init, tw, fh) ==
    LET o1 == [o EXCEPT !.autosize = TRUE, !.resizeNeeded = FALSE]
        nw == tw + o1.xPad * 2 + o1.outlineThickness * 2
        nh == fh + o1.yPad * 2 + o1.outlineThickness * 2
        o2 == [o1 EXCEPT !.width = nw, !.height = nh]
        o3 == IF init THEN createBuffer(o2, nw, nh) ELSE resize(o2, nw, nh)
    IN  [o3 EXCEPT !.updated = TRUE]

\* UiLabel::autoResize under the built-in font
autoResize(o, init) ==
    autoResizeWith(o, init, TextWidthOf(o.text, o.textSize),
                   FontHeightOf(o.textSize))

\* UiLabel::init(x, y, text), the autosizing constructor
UiLabel_initAutoWith(o, px, py, txt, tw, fh) ==
    LET o1 == UiObj_init(o, px, py, 0, 0, FALSE)
        o2 == UiLabel_init(o1, px, py, 0, 0, txt, FALSE)
        o3 == [o2 EXCEPT !.autosize = TRUE]
    IN  autoResizeWith(o3, TRUE, tw, fh)

UiLabel_initAuto(o, px, py, txt) ==
    UiLabel_initAutoWith(o, px, py, txt, TextWidthOf(txt, TextSize),
                         FontHeightOf(TextSize))

\* UiLabel::UiLabel(x, y, width, height, text)
NewLabel(px, py, pw, ph, txt) ==
    UiLabel_init(UiObjDefault, px, py, pw, ph, txt, FALSE)

\* UiLabel::UiLabel(x, y, width, height, text, unbuffered)
NewLabelWith(px, py, pw, ph, txt, unbuf) ==
    UiLabel_init(UiObjDefault, px, py, pw, ph, txt, unbuf)

\* UiLabel::UiLabel(x, y, text)
NewAutoLabel(px, py, txt) == UiLabel_initAuto(UiObjDefault, px, py, txt)

\* UiButton::UiButton(x, y, text, std::function): the label constructor,
\* then UiButton::setOutline(15, 5, 5) and setFill(2, 5)
NewButton(px, py, txt) ==
    [NewAutoLabel(px, py, txt) EXCEPT !.hasOutline = TRUE,
                                      !.outlineThickness = ButtonOutline,
                                      !.updated = TRUE]

\* UiImage::UiImage(x, y, width, height, bitmap)
NewImage(px, py, pw, ph) ==
    [UiObj_init(RawObj, px, py, pw, ph, FALSE) EXCEPT !.subInit = TRUE,
                                                      !.updated = TRUE]

\* UiFrame::init.  itemsChanged is assigned by no constructor; add() sets it
\* before it is first read on every frame of the model.
UiFrame_init(o, px, py, pw, ph, hw) ==
    LET o1 == UiLabel_init([o EXCEPT !.hwFrame = hw], px, py, pw, ph, "", hw)
        o2 == [o1 EXCEPT !.hardwareDraw = hw]
    IN  Label_setOutline(o2, FrameOutline)

\* UiFrame::UiFrame(x, y, width, height)
NewFrame(px, py, pw, ph) ==
    UiFrame_init(UiObjDefault, px, py, pw, ph, FALSE)

----------------------------------------------------------------------------
(* Scene methods.  u is a scene; each operator returns the scene after the *)
(* method has run on node n.                                               *)

\* UiObj::getArea
getArea(u, n) == Area(u[n].x, u[n].y, u[n].width, u[n].height)

\* UiObj::topLevel
RECURSIVE topLevel(_, _)
topLevel(u, n) == IF u[n].parent = NoNode THEN n ELSE topLevel(u, u[n].parent)

\* UiObj::getAbsolutePos
RECURSIVE getAbsolutePos(_, _)
getAbsolutePos(u, n) ==
    IF u[n].parent # NoNode
    THEN LET pa == getAbsolutePos(u, u[n].parent)
         IN  Area(u[n].x + pa.x, u[n].y + pa.y, u[n].width, u[n].height)
    ELSE getArea(u, n)

\* UiObj::childOffset
childOffset(u, n, a) ==
    IF u[n].parent = NoNode THEN a
    ELSE Area(a.x - u[n].x, a.y - u[n].y, a.width, a.height)

\* UiFrame::withinArea
withinArea(u, a, o) ==
    /\ u[o].x >= a.x
    /\ u[o].x + u[o].width <= a.x + a.width
    /\ u[o].y >= a.y
    /\ u[o].y + u[o].height <= a.y + a.height

\* a test that accepts only a child lying wholly inside the other
overlaps_within(u, o1, o2) ==
    /\ u[o2].x >= u[o1].x
    /\ u[o2].x + u[o2].width <= u[o1].x + u[o1].width
    /\ u[o2].y >= u[o1].y
    /\ u[o2].y + u[o2].height <= u[o1].y + u[o1].height

\* UiFrame::overlaps
overlaps(u, o1, o2) ==
    ~ \/ u[o1].x + u[o1].width < u[o2].x
      \/ u[o1].x > u[o2].x + u[o2].width
      \/ u[o1].y + u[o1].height < u[o2].y
      \/ u[o1].y > u[o2].y + u[o2].height

\* UiObj::expose
UiObj_expose(u, n, a) ==
    [u EXCEPT ![n].exposed = TRUE, ![n].exposeArea = a]

\* UiFrame::expose, and the virtual call obj->expose()
RECURSIVE expose(_, _, _)
expose(u, n, a) ==
    IF IsFrame(n) /\ (u[n].hwFrame \/ u[n].parent = NoNode)
    THEN FoldSeq(LAMBDA acc, o:
                    IF acc[o].visible /\ withinArea(acc, a, o)
                    THEN expose(acc, o, childOffset(acc, o, a))
                    ELSE acc,
                 u, u[n].objects)
    ELSE UiObj_expose(u, n, a)

\* UiObj::show
show(u, n) == [u EXCEPT ![n].visible = TRUE, ![n].visibilityChanged = TRUE]

\* UiObj::hide
hide(u, n) ==
    IF u[n].visible
    THEN LET u1 == [u EXCEPT ![n].visible = FALSE,
                             ![n].visibilityChanged = TRUE]
         IN  expose(u1, topLevel(u1, n), getArea(u1, n))
    ELSE u

\* UiObj::move (absolute form)
move(u, n, px, py) ==
    LET u1 == IF u[n].parent # NoNode
              THEN expose(u, u[n].parent, getArea(u, n)) ELSE u
        u2 == [u1 EXCEPT ![n].x = px, ![n].y = py]
    IN  IF u2[n].parent # NoNode
        THEN expose(u2, u2[n].parent, getArea(u2, n)) ELSE u2

\* UiLabel::setText
setText(u, n, txt) ==
    [u EXCEPT ![n].text = txt, ![n].resizeNeeded = TRUE, ![n].updated = TRUE]

\* UiFrame::add (with UiObj::setParent)
add(u, f, n) ==
    [u EXCEPT ![f].objects = Append(@, n), ![f].itemsChanged = TRUE,
              ![n].parent = f, ![n].newParent = TRUE]

----------------------------------------------------------------------------
(* Change detection and the update area                                    *)

\* UiLabel::isUpdated, UiImage::isUpdated, UiFrame::isUpdated and
\* UiFrame::isObjectChanged
RECURSIVE isUpdated(_, _)
isObjectChanged(u, o) ==
    u[o].initialised /\ \/ (isUpdated(u, o) /\ u[o].visible)
                        \/ u[o].visibilityChanged
                        \/ u[o].newParent

isUpdated(u, n) ==
    IF ~IsFrame(n) THEN u[n].updated
    ELSE IF ~u[n].subInit THEN FALSE
    ELSE \/ u[n].itemsChanged
         \/ u[n].visibilityChanged
         \/ u[n].newParent
         \/ \E i \in 1..Len(u[n].objects) : isObjectChanged(u, u[n].objects[i])

\* UiFrame::updateBelow
updateBelow(u, f, o) ==
    FoldSeq(LAMBDA acc, child:
                IF overlaps(acc, o, child)
                THEN [acc EXCEPT ![child].visibilityChanged = TRUE]
                ELSE acc,
            u, u[f].objects)

\* UiFrame::getUpdateArea, the loop that runs updateBelow for every child
\* that has just been hidden
markBelowHidden(u, f) ==
    FoldSeq(LAMBDA acc, o:
                IF acc[o].initialised /\ acc[o].visibilityChanged
                   /\ ~acc[o].visible
                THEN updateBelow(acc, f, o)
                ELSE acc,
            u, u[f].objects)

\* UiFrame::getUpdateArea, one step of the min/max accumulation
accumulate(a, o) ==
    LET ax == IF a.x = -1 THEN o.x ELSE Min(a.x, o.x)
        ay == IF a.y = -1 THEN o.y ELSE Min(a.y, o.y)
    IN  Area(ax, ay, Max(a.width, o.width + o.x - ax),
                     Max(a.height, o.height + o.y - ay))

\* UiFrame::getUpdateArea, the accumulation over the changed children
accumulateChildren(u, f) ==
    FoldSeq(LAMBDA a, o: IF isObjectChanged(u, o) THEN accumulate(a, u[o])
                         ELSE a,
            Area(-1, -1, 0, 0), u[f].objects)

\* an accumulation whose origin is returned as it is
clampOrigin_none(a) == a

\* UiFrame::getUpdateArea, the replacement of a negative origin
clampOrigin(a) ==
    IF a.x < 0 \/ a.y < 0 THEN [a EXCEPT !.x = 0, !.y = 0] ELSE a

\* UiFrame::getUpdateArea, the hardware width rounding ((w + 3) >> 2) << 2
roundWidth(w) == ((w + 3) \div 4) * 4

\* UiFrame::getUpdateArea
Frame_getUpdateArea(u, f) ==
    IF ~u[f].subInit THEN u
    ELSE IF ~isUpdated(u, f) THEN [u EXCEPT ![f].updateArea = ZeroArea]
    ELSE LET u1 == markBelowHidden(u, f)
         IN  IF u1[f].visibilityChanged
             THEN [u1 EXCEPT ![f].updateArea =
                                 Area(0, 0, u1[f].width, u1[f].height)]
             ELSE LET a == clampOrigin(accumulateChildren(u1, f))
                      b == IF u1[f].hwFrame
                           THEN [a EXCEPT !.width = roundWidth(a.width)]
                           ELSE a
                  IN  [u1 EXCEPT ![f].updateArea = b]

\* UiLabel::getUpdateArea
Label_getUpdateArea(u, n) ==
    [u EXCEPT ![n].updateArea = Area(0, 0, u[n].width, u[n].height)]

\* UiImage::getUpdateArea
Image_getUpdateArea(u, n) ==
    [u EXCEPT ![n].updateArea = Area(u[n].x, u[n].y, u[n].width, u[n].height)]

\* the virtual call getUpdateArea()
getUpdateArea(u, n) ==
    IF IsFrame(n) THEN Frame_getUpdateArea(u, n)
    ELSE IF Kind(n) = "image" THEN Image_getUpdateArea(u, n)
    ELSE Label_getUpdateArea(u, n)

----------------------------------------------------------------------------
(* The render pipeline                                                     *)

\* a test that leaves the exposed flag out
visualChange_noExpose(u, n) ==
    \/ u[n].visibilityChanged
    \/ u[n].newParent
    \/ isUpdated(u, n)
    \/ (u[n].parent # NoNode /\ u[u[n].parent].visibilityChanged)

\* UiObj::visualChange
visualChange(u, n) ==
    \/ u[n].visibilityChanged
    \/ u[n].newParent
    \/ isUpdated(u, n)
    \/ u[n].exposed
    \/ (u[n].parent # NoNode /\ u[u[n].parent].visibilityChanged)

\* surface.fillSprite(colour): every pixel of the node's buffer is
\* overwritten, so the buffer holds no child's pixels any more; without a
\* buffer the call does nothing
fillSprite(u, n) ==
    IF u[n].unbuffered THEN u
    ELSE [u EXCEPT ![n].holds = {}, ![n].shows = ""]

\* UiLabel::drawText: the text is drawn on the label's surface, in one line
\* or in several; `shows` is the text the surface displays
drawText(u, n) ==
    IF u[n].unbuffered \/ u[n].text = "" THEN u
    ELSE [u EXCEPT ![n].shows = u[n].text]

\* UiLabel::draw
Label_draw(u, n) ==
    IF ~u[n].subInit THEN u
    ELSE IF u[n].hasPreRender THEN [u EXCEPT ![n].hasPreRender = FALSE]
    ELSE IF u[n].autosize /\ u[n].resizeNeeded
    THEN LET o1 == IF u[n].width = 0 \/ u[n].height = 0
                   THEN autoResize(u[n], TRUE) ELSE u[n]
         IN  drawText(fillSprite([u EXCEPT ![n] = autoResize(o1, FALSE)],
                                 n), n)
    ELSE drawText(fillSprite(u, n), n)

\* UiObj::packToGrey, the bit operations of the inner loop
RECURSIVE BitAnd(_, _)
BitAnd(a, b) ==
    IF a = 0 \/ b = 0 THEN 0
    ELSE (a % 2) * (b % 2) + 2 * BitAnd(a \div 2, b \div 2)

RECURSIVE BitOr(_, _)
BitOr(a, b) ==
    IF a = 0 THEN b
    ELSE IF b = 0 THEN a
    ELSE Max(a % 2, b % 2) + 2 * BitOr(a \div 2, b \div 2)

\* a byte with its nibbles exchanged
packByte_swapped(p0, p1) ==
    BitOr(BitAnd(p0, 15), BitAnd(p1, 15) * 16) % 256

\* UiObj::packToGrey, the byte stored for two source pixels:
\* ((ownBuf[i] & 0x0F) << 4) | (ownBuf[i + 1] & 0x0F), stored as uint8_t
packByte(p0, p1) ==
    BitOr(BitAnd(p0, 15) * 16, BitAnd(p1, 15)) % 256

\* UiObj::packToGrey, one row of the render area: the bytes written for a
\* row of `width` source pixels starting at the row's first pixel
packRow(ownBuf, width) ==
    [k \in 1..((width + 1) \div 2) |-> packByte(ownBuf[2 * k - 1], ownBuf[2 * k])]

\* UiObj::packToGrey, as far as the scene is concerned: the step is
\* recorded when the buffer exists and the loops run at least once
packToGrey(u, n) ==
    IF u[n].unbuffered \/ u[n].updateArea.width <= 0
       \/ u[n].updateArea.height <= 0
    THEN u
    ELSE [u EXCEPT ![n].pushed = "pack", ![n].packArea = u[n].updateArea,
                   ![n].packTop = u[topLevel(u, n)].updateArea]

\* UiObj::copyToParent: nothing when the parent has no buffer; otherwise
\* min(height, parent height - y) rows of min(width, parent width - x)
\* bytes are copied into the parent's buffer at (x, y), after which that
\* buffer holds the node's pixels at that offset.  The node's own buffer is
\* not tested: what the rows copied from a missing one put into the parent
\* is undefined and is not recorded.
copyToParent(u, n) ==
    LET p == u[n].parent
        rows == Min(u[n].height, u[p].height - u[n].y)
        cols == Min(u[n].width, u[p].width - u[n].x)
    IN  IF u[p].unbuffered THEN u
        ELSE IF u[n].unbuffered \/ rows <= 0 \/ cols <= 0
        THEN [u EXCEPT ![n].pushed = "copy"]
        ELSE [u EXCEPT ![n].pushed = "copy",
                       ![p].holds = {e \in @ : e.node # n} \cup
                                    {[node |-> n, x |-> u[n].x, y |-> u[n].y]}]

\* UiObj::render, the part after draw(): push the surface and set drawn
pushAndMark(u, n) ==
    IF visualChange(u, n)
    THEN IF u[n].parent = NoNode \/ u[u[n].parent].hardwareDraw
         THEN LET u1 == packToGrey(getUpdateArea(u, n), n)
              IN  IF u1[n].updateArea.width = 0 \/ u1[n].updateArea.height = 0
                  THEN u1
                  ELSE [u1 EXCEPT ![n].drawn = TRUE]
         ELSE [copyToParent(u, n) EXCEPT ![n].drawn = TRUE]
    ELSE [u EXCEPT ![n].drawn = TRUE]

\* an outer loop that runs from the top layer down
drawLayers_descending ==
    <<LAYER_OVERLAY, LAYER_TOP, LAYER_UPPER, LAYER_CENTRE, LAYER_LOWER,
      LAYER_BG>>

\* UiFrame::draw, the order of the outer loop
drawLayers ==
    <<LAYER_BG, LAYER_LOWER, LAYER_CENTRE, LAYER_UPPER, LAYER_TOP,
      LAYER_OVERLAY>>

\* UiFrame::draw, the children its two nested loops reach, in that order.
\* Rendering one child changes neither the visibility nor the layer of
\* another, so the tests are made on the scene the loops start from.
drawOrder(u, f) ==
    FoldSeq(LAMBDA acc, layer:
                acc \o SelectSeq(u[f].objects,
                                 LAMBDA o: u[o].visible /\ u[o].layer = layer),
            <<>>, drawLayers)

\* UiObj::render and the virtual draw() (UiFrame::draw, UiLabel::draw,
\* UiImage::draw)
RECURSIVE render(_, _)
Frame_draw(u, f) ==
    IF ~u[f].subInit THEN u
    ELSE LET u0 == Frame_getUpdateArea(u, f)
             u1 == Label_draw(IF u0[f].visibilityChanged
                              THEN fillSprite(u0, f) ELSE u0, f)
         IN  FoldSeq(LAMBDA acc, o:
                         render([acc EXCEPT ![f].rendered = Append(@, o)], o),
                     u1, drawOrder(u1, f))

draw(u, n) ==
    LET u1 == [u EXCEPT ![n].drawCalls = 1]
    IN  IF IsFrame(n) THEN Frame_draw(u1, n)
        ELSE IF IsLabel(n) THEN Label_draw(u1, n)
        ELSE u1

render(u, n) ==
    IF ~u[n].initialised \/ ~u[n].visible THEN u
    ELSE LET u1 == getUpdateArea([u EXCEPT ![n].renderCalls = 1], n)
             u2 == IF isUpdated(u1, n) THEN draw(u1, n) ELSE u1
         IN  pushAndMark(u2, n)

\* UiObj::resetStatus without the test of drawn
UiObj_resetStatus_always(o) ==
    [o EXCEPT !.updated = FALSE, !.drawn = FALSE, !.exposed = FALSE,
              !.newParent = FALSE, !.visibilityChanged = FALSE]

\* UiObj::resetStatus
UiObj_resetStatus(o) ==
    LET o1 == IF o.drawn
              THEN [o EXCEPT !.updated = FALSE, !.drawn = FALSE,
                             !.exposed = FALSE]
              ELSE o
    IN  [o1 EXCEPT !.newParent = FALSE, !.visibilityChanged = FALSE]

\* UiFrame::resetStatus and the virtual call obj->resetStatus()
RECURSIVE resetStatus(_, _)
resetStatus(u, n) ==
    IF IsFrame(n)
    THEN LET o1 == IF u[n].drawn THEN [u[n] EXCEPT !.itemsChanged = FALSE]
                   ELSE u[n]
             u1 == [u EXCEPT ![n] = UiObj_resetStatus(o1)]
         IN  FoldSeq(LAMBDA acc, o: resetStatus(acc, o), u1, u1[n].objects)
    ELSE [u EXCEPT ![n] = UiObj_resetStatus(u[n])]

\* what the observer of one render pass forgets before the next call
clearPass(u) ==
    [n \in Nodes |-> [u[n] EXCEPT !.pushed = "none", !.drawCalls = 0,
                                  !.renderCalls = 0, !.packArea = ZeroArea,
                                  !.packTop = ZeroArea,
                                  !.rendered = <<>>]]

\* UiManager::updateDisplay: the scene after getUpdateArea() and render()
updateDisplay(u) == render(getUpdateArea(clearPass(u), Root), Root)

\* a refresh decided on the height alone
refreshIssued_heightOnly(u) == ~(u[Root].updateArea.height = 0)

\* UiManager::updateDisplay: whether the partial refresh is issued
refreshIssued(u) ==
    ~(u[Root].updateArea.height = 0 \/ u[Root].updateArea.width = 0)

\* UiManager::updateDisplay: the calls made after render(), in order: the
\* write of the rectangle to the panel, the two refreshes of it, and the
\* assignment of lastDisplayUpdate
displayCalls(u) ==
    IF refreshIssued(u)
    THEN <<[call |-> "WritePartGram4bpp", rect |-> u[Root].updateArea],
           [call |-> "UpdateArea", rect |-> u[Root].updateArea],
           [call |-> "UpdateArea", rect |-> u[Root].updateArea],
           [call |-> "lastDisplayUpdate", rect |-> ZeroArea]>>
    ELSE <<>>

\* UiLabel::preRender
preRender(u, n) ==
    IF ~u[n].subInit THEN u
    ELSE [Label_draw(u, n) EXCEPT ![n].hasPreRender = TRUE]

----------------------------------------------------------------------------
(* Touch dispatch                                                          *)

\* UiFrame::touchEvent, the test applied to each child
hitTest(o, layer, px, py) ==
    /\ o.layer = layer
    /\ o.visible
    /\ px >= o.x /\ px <= o.x + o.width
    /\ py >= o.y /\ py <= o.y + o.height

\* the layers searched from the bottom up
touchLayers_ascending ==
    <<LAYER_BG, LAYER_LOWER, LAYER_CENTRE, LAYER_UPPER, LAYER_TOP,
      LAYER_OVERLAY>>

\* UiFrame::touchEvent, the order in which the layers are searched
touchLayers ==
    <<LAYER_OVERLAY, LAYER_TOP, LAYER_UPPER, LAYER_CENTRE, LAYER_LOWER,
      LAYER_BG>>

\* UiFrame::touchEvent, the children that pass the test, in the order the
\* two nested loops reach them
hitOrder(u, f, px, py) ==
    FoldSeq(LAMBDA acc, layer:
                acc \o SelectSeq(u[f].objects,
                                 LAMBDA o: hitTest(u[o], layer, px, py)),
            <<>>, touchLayers)

\* a dispatch that keeps searching after the first match
hitChild_last(u, f, px, py) ==
    LET hits == hitOrder(u, f, px, py)
    IN  IF hits = <<>> THEN NoNode ELSE hits[Len(hits)]

\* UiFrame::touchEvent, the child the event is passed to (NoNode: none)
hitChild(u, f, px, py) ==
    LET hits == hitOrder(u, f, px, py)
    IN  IF hits = <<>> THEN NoNode ELSE Head(hits)

\* UiFrame::touchEvent and the virtual call obj->touchEvent(): the nodes
\* whose touchEvent runs, outermost first
RECURSIVE touchChain(_, _, _, _)
touchChain(u, n, px, py) ==
    IF ~IsFrame(n) \/ ~u[n].subInit THEN <<n>>
    ELSE LET c == hitChild(u, n, px, py)
         IN  IF c = NoNode THEN <<n>>
             ELSE <<n>> \o touchChain(u, c, px - u[c].x, py - u[c].y)

\* UiFrame::touchEvent and the virtual call obj->touchEvent(): the arguments
\* (x, y) each touchEvent of the chain is called with, outermost first
RECURSIVE touchArgs(_, _, _, _)
touchArgs(u, n, px, py) ==
    IF ~IsFrame(n) \/ ~u[n].subInit THEN <<(<<px, py>>)>>
    ELSE LET c == hitChild(u, n, px, py)
         IN  IF c = NoNode THEN <<(<<px, py>>)>>
             ELSE <<(<<px, py>>)>> \o touchArgs(u, c, px - u[c].x, py - u[c].y)

\* UiManager::touchEvent, the test that the point is inside the modal
insideModal(u, px, py) ==
    /\ px > u[Modal].x /\ px < u[Modal].x + u[Modal].width
    /\ py > u[Modal].y /\ py < u[Modal].y + u[Modal].height

\* a manager that passes every touch to the frame dispatch
Manager_touchChain_noModal(u, px, py) == touchChain(u, Root, px, py)

\* UiManager::touchEvent
Manager_touchChain(u, px, py) ==
    IF u[Modal].visible
    THEN IF insideModal(u, px, py)
         THEN <<Root>> \o touchChain(u, Modal, px - u[Modal].x,
                                     py - u[Modal].y)
         ELSE <<Root>>
    ELSE touchChain(u, Root, px, py)

\* UiManager::touchEvent, the arguments of the calls of the chain
Manager_touchArgs(u, px, py) ==
    IF u[Modal].visible
    THEN IF insideModal(u, px, py)
         THEN <<(<<px, py>>)>> \o touchArgs(u, Modal, px - u[Modal].x,
                                           py - u[Modal].y)
         ELSE <<(<<px, py>>)>>
    ELSE touchArgs(u, Root, px, py)

\* UiButton::touchEvent: whether the callback is invoked, given what the
\* read of the never-assigned member `callback` compares equal to
buttonFires(u, n, callbackIsNull) ==
    Kind(n) = "button" /\ u[n].subInit /\ ~callbackIsNull

\* UiModal::closePressed / okPressed / cancelPressed: the result code
pressedResult(n) == IF n = CancelBtn THEN 1 ELSE 0

----------------------------------------------------------------------------
(* The modal                                                               *)

\* a message box that leaves the Cancel button as it was
msgbox_keepCancel(u, title, message) ==
    LET u1 == setText(setText(u, TitleBar, title), Content, message)
        u2 == show(u1, OkBtn)
        u3 == move(u2, OkBtn,
                   CDiv(u2[Modal].width - u2[OkBtn].width - 10, 2),
                   u2[Modal].height - u2[OkBtn].height - 10)
    IN  show(u3, Modal)

\* UiModal::msgbox, the scene part
msgbox(u, title, message) ==
    LET u1 == setText(setText(u, TitleBar, title), Content, message)
        u2 == show(hide(u1, CancelBtn), OkBtn)
        u3 == move(u2, OkBtn,
                   CDiv(u2[Modal].width - u2[OkBtn].width - 10, 2),
                   u2[Modal].height - u2[OkBtn].height - 10)
    IN  show(u3, Modal)

\* UiModal::confirm, the scene part
confirm(u, title, message) ==
    LET u1 == setText(setText(u, TitleBar, title), Content, message)
        u2 == show(show(u1, CancelBtn), OkBtn)
        u3 == move(u2, CancelBtn, CDiv(u2[Modal].width, 2),
                   u2[Modal].height - u2[OkBtn].height - 10)
        u4 == move(u3, OkBtn, CDiv(u3[Modal].width, 4),
                   u3[Modal].height - u3[OkBtn].height - 10)
    IN  show(u4, Modal)

\* UiLabel::noBorder
noBorder(o) ==
    [o EXCEPT !.hasOutline = FALSE, !.resizeNeeded = TRUE, !.updated = TRUE]

\* UiModal::createElements
createElements(u) ==
    LET m == Label_setOutline(u[Modal], ModalOutline)
        ok == NewButton(100, m.height - 100, "OK")
        u1 == [u EXCEPT
                 ![Modal] = m,
                 ![TitleBar] = Label_setOutline(
                                  NewLabel(0, 0, m.width, TitleHeight, ""),
                                  ModalOutline),
                 ![CloseBtn] = NewButton(m.width - 50, 0, "X"),
                 ![OkBtn] = ok,
                 ![CancelBtn] = NewButton(m.width - 100, m.height - 100,
                                          "Cancel"),
                 ![Content] = noBorder(NewLabel(0, TitleHeight, m.width,
                                  m.height - TitleHeight - ok.height, ""))]
        u2 == add(add(add(add(add(u1, Modal, CloseBtn), Modal, TitleBar),
                          Modal, Content), Modal, OkBtn), Modal, CancelBtn)
    IN  preRender(preRender(u2, CancelBtn), OkBtn)

\* UiModal::UiModal()
NewModal(u) ==
    LET u1 == [u EXCEPT ![Modal] = UiFrame_init(UiObjDefault, ModalX, ModalY,
                                       ModalWidth, ModalHeight, FALSE)]
        u2 == hide(createElements(u1), Modal)
    IN  [u2 EXCEPT ![Modal].layer = LAYER_OVERLAY]

\* UiManager::UiManager with UiManager::addModal
NewManager(u) ==
    LET r == Label_setOutline(
                 UiFrame_init(UiObjDefault, 0, 0, screenWidth, screenHeight,
                              TRUE), 0)
        u1 == [u EXCEPT ![Root] = r]
    IN  add(NewModal(u1), Root, Modal)

----------------------------------------------------------------------------
(* The state machine of the scene                                          *)

\* inputs of the application calls
Positions == {<<0, 0>>, <<6, 2>>, <<60, 210>>}
Texts == {"abc"}
WidthsA == {0, 4}
HideNodes == {LabelA, LabelB, ImageI, FrameF}
ShowNodes == {LabelA, FrameF}
MoveNodes == {LabelA}
TextNodes == {LabelA, LabelB}

\* the objects the application constructs: new UiLabel(6, 2, w, 4, "a") put
\* on the overlay layer, new UiLabel(0, 0, "a"), new UiImage(8, 2, 4, 4,
\* bitmap), and new UiFrame(0, 20, 100, 70) to which the second label is
\* added
NewObjects(u, wA) ==
    [u EXCEPT ![LabelA] = [NewLabel(6, 2, wA, 4, "a")
                              EXCEPT !.layer = LAYER_OVERLAY],
              ![LabelB] = NewAutoLabel(0, 0, "a"),
              ![ImageI] = NewImage(8, 2, 4, 4),
              ![FrameF] = NewFrame(0, 20, 100, 70)]

UserObjects(u, wA) == add(NewObjects(u, wA), FrameF, LabelB)

\* the add() calls of the application's setup(), in order
Setups ==
    { << <<Root, LabelA>>, <<Root, ImageI>>, <<Root, FrameF>> >>,
      << <<Root, FrameF>>, <<Root, ImageI>>, <<Root, LabelA>> >>,
      << <<FrameF, LabelA>>, <<FrameF, ImageI>>, <<Root, FrameF>> >>,
      << <<Root, FrameF>> >> }

NoOp == [op |-> "none", node |-> NoNode, area |-> ZeroArea, flag |-> FALSE]
Op(name, n, a, b) == [op |-> name, node |-> n, area |-> a, flag |-> b]

NoDisp == [seq |-> 0, rootUpdated |-> FALSE, area |-> ZeroArea,
           refreshed |-> FALSE, calls |-> <<>>, after |-> NoOp]
NoTouch == [x |-> 0, y |-> 0, chain |-> <<>>, args |-> <<>>, ret |-> FALSE,
            modalShown |-> FALSE, inside |-> FALSE, changed |-> FALSE]
NoPack == [row |-> <<>>, out |-> <<>>, done |-> FALSE]
NoLines == [text |-> <<>>, avail |-> 0, lineStart |-> 0, from |-> 0,
            lineEnd |-> 0, lines |-> 0]
NoCopy == [x |-> 0, y |-> 0, width |-> 0, height |-> 0, pw |-> 0, ph |-> 0,
           row |-> 0, first |-> 0, len |-> 0, rows |-> 0]
NoLoop == [pc |-> "none", fingerDown |-> FALSE, tp |-> <<0, 0>>,
           lastTp |-> <<0, 0>>, passes |-> 0, taps |-> 0, calls |-> 0]
NoLabel == [tw |-> 0, fh |-> 0, x |-> 0, y |-> 0, obj |-> RawObj,
            done |-> FALSE]

\* the state after `new UiManager(canvas)`, the construction of the
\* application's objects and the add() calls of setup()
InitScene ==
    /\ \E wA \in WidthsA, setup \in Setups :
          ui = FoldSeq(LAMBDA u, a: add(u, a[1], a[2]),
                       UserObjects(NewManager([n \in Nodes |-> RawObj]), wA),
                       setup)
    /\ result = -1
    /\ ops = 0
    /\ lastOp = NoOp
    /\ disp = NoDisp
    /\ touch = NoTouch
    /\ pk = NoPack
    /\ lb = NoLabel
    /\ ml = NoLines
    /\ cp = NoCopy
    /\ ev = NoLoop

Init == InitScene /\ budget = MaxOps

InitTouch == InitScene /\ budget = MaxTouchOps

\* an application call: it counts against the bound and is remembered
AppCall(o) ==
    /\ ops < budget
    /\ ops' = ops + 1
    /\ lastOp' = o
    /\ disp' = NoDisp
    /\ UNCHANGED <<budget, pk, lb, ml, cp, ev>>

\* frame->add(obj)
Add(f, n) ==
    /\ n # f
    /\ ui[n].parent = NoNode
    /\ ui' = add(clearPass(ui), f, n)
    /\ AppCall(Op("add", n, ZeroArea, FALSE))
    /\ touch' = NoTouch
    /\ UNCHANGED result

\* obj->hide()
Hide(n) ==
    /\ ui' = hide(clearPass(ui), n)
    /\ AppCall(Op("hide", n, getAbsolutePos(ui, n), ui[n].visible))
    /\ touch' = NoTouch
    /\ UNCHANGED result

\* obj->show()
Show(n) ==
    /\ ui' = show(clearPass(ui), n)
    /\ AppCall(Op("show", n, ZeroArea, ~ui[n].visible /\ isUpdated(ui, n)))
    /\ touch' = NoTouch
    /\ UNCHANGED result

\* obj->move(x, y)
Move(n, pos) ==
    /\ ui' = move(clearPass(ui), n, pos[1], pos[2])
    /\ AppCall(Op("move", n, getAbsolutePos(ui, n),
                  ui[n].visible /\ ui[n].parent # NoNode))
    /\ touch' = NoTouch
    /\ UNCHANGED result

\* label->setText(text)
SetText(n, txt) ==
    /\ ui' = setText(clearPass(ui), n, txt)
    /\ AppCall(Op("setText", n, ZeroArea, FALSE))
    /\ touch' = NoTouch
    /\ UNCHANGED result

\* UiManager::msgbox
Msgbox ==
    /\ ui' = msgbox(clearPass(ui), "a", "abc")
    /\ result' = -1
    /\ AppCall(Op("msgbox", Modal, ZeroArea, FALSE))
    /\ touch' = NoTouch

\* UiManager::confirm
Confirm ==
    /\ ui' = confirm(clearPass(ui), "a", "abc")
    /\ result' = -1
    /\ AppCall(Op("confirm", Modal, ZeroArea, FALSE))
    /\ touch' = NoTouch

\* the points a tap is tried at: the top-left corner of a node, a point
\* one eighth of the way in, and the centre
TapNodes == {LabelA, LabelB, Modal, CloseBtn, OkBtn, CancelBtn}
TapSpots == {"corner", "eighth", "centre"}
TapPoint(u, n, spot) ==
    LET a == getAbsolutePos(u, n)
    IN  CASE spot = "corner" -> <<a.x, a.y>>
          [] spot = "eighth" -> <<a.x + a.width \div 8, a.y + a.height \div 8>>
          [] spot = "centre" -> <<a.x + a.width \div 2, a.y + a.height \div 2>>

\* a tap whose button callback records the result and leaves the modal open
TouchEvent_stayOpen(n, spot, callbackIsNull) ==
    /\ LET px == TapPoint(ui, n, spot)[1]
           py == TapPoint(ui, n, spot)[2]
           chain == Manager_touchChain(ui, px, py)
           tgt == chain[Len(chain)]
           fires == buttonFires(ui, tgt, callbackIsNull)
       IN  /\ Kind(tgt) # "button" => ~callbackIsNull
           /\ ui' = clearPass(ui)
           /\ result' = IF fires THEN pressedResult(tgt) ELSE result
           /\ touch' = [x |-> px, y |-> py, chain |-> chain,
                        args |-> Manager_touchArgs(ui, px, py), ret |-> fires,
                        modalShown |-> ui[Modal].visible,
                        inside |-> insideModal(ui, px, py),
                        changed |-> (ui' # clearPass(ui)
                                     \/ result' # result)]
    /\ AppCall(Op("touch", NoNode, ZeroArea, FALSE))

\* UiManager::touchEvent(x, y) for a tap on the given spot of node n
TouchEvent(n, spot, callbackIsNull) ==
    /\ LET px == TapPoint(ui, n, spot)[1]
           py == TapPoint(ui, n, spot)[2]
           chain == Manager_touchChain(ui, px, py)
           tgt == chain[Len(chain)]
           fires == buttonFires(ui, tgt, callbackIsNull)
       IN  /\ Kind(tgt) # "button" => ~callbackIsNull
           /\ ui' = IF fires THEN hide(clearPass(ui), Modal)
                    ELSE clearPass(ui)
           /\ result' = IF fires THEN pressedResult(tgt) ELSE result
           /\ touch' = [x |-> px, y |-> py, chain |-> chain,
                        args |-> Manager_touchArgs(ui, px, py), ret |-> fires,
                        modalShown |-> ui[Modal].visible,
                        inside |-> insideModal(ui, px, py),
                        changed |-> (ui' # clearPass(ui)
                                     \/ result' # result)]
    /\ AppCall(Op("touch", NoNode, ZeroArea, FALSE))

\* UiManager::updateDisplay
UpdateDisplay ==
    /\ ui' = updateDisplay(ui)
    /\ disp' = [seq |-> IF disp.seq \in {0, 1} THEN 1 ELSE 3,
                rootUpdated |-> isUpdated(ui, Root),
                area |-> getUpdateArea(ui, Root)[Root].updateArea,
                refreshed |-> refreshIssued(ui'),
                calls |-> displayCalls(ui'),
                after |-> lastOp]
    /\ lastOp' = Op("updateDisplay", Root, ZeroArea, FALSE)
    /\ touch' = NoTouch
    /\ UNCHANGED <<result, ops, budget, pk, lb, ml, cp, ev>>

\* UiManager::resetStatus, as processEvents calls it
ResetStatus ==
    /\ ui' = resetStatus(clearPass(ui), Root)
    /\ disp' = [NoDisp EXCEPT !.seq = IF disp.seq = 0 THEN 0 ELSE 2]
    /\ lastOp' = Op("resetStatus", Root, ZeroArea, FALSE)
    /\ touch' = NoTouch
    /\ UNCHANGED <<result, ops, budget, pk, lb, ml, cp, ev>>

Next ==
    \/ \E f \in {Root, FrameF}, n \in UserNodes : Add(f, n)
    \/ \E n \in HideNodes : Hide(n)
    \/ \E n \in ShowNodes : Show(n)
    \/ \E n \in MoveNodes, pos \in Positions : Move(n, pos)
    \/ \E n \in TextNodes, txt \in Texts : SetText(n, txt)
    \/ Msgbox
    \/ UpdateDisplay
    \/ ResetStatus

Spec == Init /\ [][Next]_vars

\* the calls of the touch path: the scene is changed, the modal is opened,
\* and taps arrive
NextTouch ==
    \/ \E f \in {Root, FrameF}, n \in UserNodes : Add(f, n)
    \/ \E n \in HideNodes : Hide(n)
    \/ \E n \in MoveNodes, pos \in Positions : Move(n, pos)
    \/ Msgbox
    \/ Confirm
    \/ \E n \in TapNodes, spot \in TapSpots, cb \in BOOLEAN :
          TouchEvent(n, spot, cb)

SpecTouch == InitTouch /\ [][NextTouch]_vars

----------------------------------------------------------------------------
(* packToGrey on one row                                                   *)

PixelValues == {0, 7, 15, 16, 255}
ExampleRow == <<0, 15, 3, 12, 7, 8, 1, 14>>

\* the rows of even width up to the bound, and the documented example row
Rows ==
    UNION {[1..(2 * k) -> PixelValues] : k \in 0..MaxRowPairs}
        \cup {ExampleRow}

IdleScene == NewManager([n \in Nodes |-> RawObj])

InitPack ==
    /\ ui = IdleScene
    /\ result = -1
    /\ ops = 0
    /\ budget = 0
    /\ lastOp = NoOp
    /\ disp = NoDisp
    /\ touch = NoTouch
    /\ lb = NoLabel
    /\ ml = NoLines
    /\ cp = NoCopy
    /\ ev = NoLoop
    /\ \E r \in Rows : pk = [row |-> r, out |-> <<>>, done |-> FALSE]

\* UiObj::packToGrey runs its inner loop over the row
PackRow ==
    /\ ~pk.done
    /\ pk' = [pk EXCEPT !.out = packRow(pk.row, Len(pk.row)), !.done = TRUE]
    /\ UNCHANGED <<ui, result, ops, budget, lastOp, disp, touch, lb, ml, cp, ev>>

NextPack == PackRow

SpecPack == InitPack /\ [][NextPack]_vars

----------------------------------------------------------------------------
(* The autosizing label constructor                                        *)

LabelPositions == {<<0, 0>>, <<10, 10>>}

InitLabel ==
    /\ ui = IdleScene
    /\ result = -1
    /\ ops = 0
    /\ budget = 0
    /\ lastOp = NoOp
    /\ disp = NoDisp
    /\ touch = NoTouch
    /\ pk = NoPack
    /\ ml = NoLines
    /\ cp = NoCopy
    /\ ev = NoLoop
    /\ \E tw \in 0..MaxTextWidth, fh \in 1..MaxFontHeight,
          pos \in LabelPositions :
          lb = [tw |-> tw, fh |-> fh, x |-> pos[1], y |-> pos[2],
                obj |-> RawObj, done |-> FALSE]

\* new UiLabel(x, y, text) under a metrics service that measures lb.tw and
\* lb.fh
Construct ==
    /\ ~lb.done
    /\ lb' = [lb EXCEPT !.obj = UiLabel_initAutoWith(UiObjDefault, lb.x, lb.y,
                                                     "Hi", lb.tw, lb.fh),
                        !.done = TRUE]
    /\ UNCHANGED <<ui, result, ops, budget, lastOp, disp, touch, pk, ml, cp, ev>>

NextLabel == Construct

SpecLabel == InitLabel /\ [][NextLabel]_vars

----------------------------------------------------------------------------
(* Multi-line text.  A text is a sequence of characters; an index of the   *)
(* source (0-based) is index + 1 of the sequence.  The sprite measures a   *)
(* text of the built-in font as 6 * textSize pixels per character, the     *)
(* newline included.                                                       *)

Chars == {"a", " ", "\n"}

\* String::indexOf(c): the first index of c, -1 when it does not occur
indexOf(text, c) ==
    IF \E i \in 1..Len(text) : text[i] = c
    THEN (CHOOSE i \in 1..Len(text) :
             text[i] = c /\ \A j \in 1..(i - 1) : text[j] # c) - 1
    ELSE -1

\* String::charAt(i): 0 outside the string
charAt(text, i) == IF i >= 0 /\ i < Len(text) THEN text[i + 1] ELSE "NUL"

\* String::substring(left, right), its length: the arguments are exchanged
\* when left > right, an end past the string is the end of the string
substringLen(text, left, right) ==
    LET l == Min(left, right)
        r == Min(Max(left, right), Len(text))
    IN  IF l >= Len(text) THEN 0 ELSE r - l

\* UiLabel::lineLimit, the do-while loop entered with lineEnd already
\* decremented once
RECURSIVE walkBack(_, _, _)
walkBack(text, lineStart, lineEnd) ==
    IF charAt(text, lineEnd) # " " /\ lineEnd > lineStart
    THEN walkBack(text, lineStart, lineEnd - 1)
    ELSE lineEnd

\* UiLabel::lineLimit, the while (true) loop
RECURSIVE shrinkLine(_, _, _, _)
shrinkLine(text, lineStart, lineEnd, textAreaWidth) ==
    IF \/ substringLen(text, lineStart, lineEnd) * 6 * TextSize
              <= textAreaWidth
       \/ lineEnd - lineStart <= 1
    THEN lineEnd
    ELSE shrinkLine(text, lineStart, walkBack(text, lineStart, lineEnd - 1),
                    textAreaWidth)

\* UiLabel::lineLimit
lineLimit(text, offset, textAreaWidth) ==
    LET nl == indexOf(text, "\n")
    IN  shrinkLine(text, offset, IF nl = -1 THEN Len(text) ELSE nl,
                   textAreaWidth)

\* the widths of the labels the texts are drawn in
LabelWidths == {58, 76}

\* UiLabel::drawText takes the multi-line path: a label of UiLabel::init
\* (xPad 10, outline thickness 10) whose text is wider than width - xPad * 2
InitText ==
    /\ ui = IdleScene
    /\ result = -1
    /\ ops = 0
    /\ budget = 0
    /\ lastOp = NoOp
    /\ disp = NoDisp
    /\ touch = NoTouch
    /\ pk = NoPack
    /\ lb = NoLabel
    /\ cp = NoCopy
    /\ ev = NoLoop
    /\ \E k \in 1..MaxTextLen, w \in LabelWidths :
          \E text \in [1..k -> Chars] :
              /\ TextWidthOf(text, TextSize) > w - LabelPad * 2
              /\ ml = [NoLines EXCEPT
                          !.text = text,
                          !.avail = w - LabelPad * 2 - LabelOutline * 2]

\* one iteration of the loop of UiLabel::drawMultilineText (and of
\* UiLabel::getMultilineHeight, whose loop makes the same calls): the next
\* line starts where lineLimit says the current one ends.  The number of
\* iterations counted is limited.
NextLine ==
    /\ ml.lineStart < Len(ml.text)
    /\ ml.lines <= MaxTextLen
    /\ ml' = [ml EXCEPT !.from = ml.lineStart,
                        !.lineEnd = lineLimit(ml.text, ml.lineStart, ml.avail),
                        !.lineStart = lineLimit(ml.text, ml.lineStart, ml.avail),
                        !.lines = ml.lines + 1]
    /\ UNCHANGED <<ui, result, ops, budget, lastOp, disp, touch, pk, lb, cp, ev>>

NextText == NextLine

SpecText == InitText /\ [][NextText]_vars

----------------------------------------------------------------------------
(* copyToParent row by row.  The surfaces hold one byte per pixel, so the  *)
(* byte offset of pixel (x, y) in a surface of width w is y * w + x.       *)

\* the child's position: inside the container, and partly or wholly outside
\* it on each side
CopyOffsets == (0 - MaxSide)..(2 * MaxSide)

InitCopy ==
    /\ ui = IdleScene
    /\ result = -1
    /\ ops = 0
    /\ budget = 0
    /\ lastOp = NoOp
    /\ disp = NoDisp
    /\ touch = NoTouch
    /\ pk = NoPack
    /\ lb = NoLabel
    /\ ml = NoLines
    /\ ev = NoLoop
    /\ \E x \in CopyOffsets, y \in CopyOffsets,
          w \in 1..MaxSide, h \in 1..MaxSide,
          pw \in 1..MaxSide, ph \in 1..MaxSide :
          cp = [NoCopy EXCEPT !.x = x, !.y = y, !.width = w, !.height = h,
                              !.pw = pw, !.ph = ph]

\* UiObj::copyToParent, one iteration of the row loop: memcpy of
\* min(width, parent width - x) bytes to offset (row + y) * parent width + x
\* of the parent's buffer
CopyRow ==
    /\ cp.row < Min(cp.height, cp.ph - cp.y)
    /\ cp' = [cp EXCEPT !.first = (cp.row + cp.y) * cp.pw + cp.x,
                        !.len = Min(cp.width, cp.pw - cp.x),
                        !.row = cp.row + 1,
                        !.rows = cp.rows + 1]
    /\ UNCHANGED <<ui, result, ops, budget, lastOp, disp, touch, pk, lb, ml, ev>>

NextCopy == CopyRow

SpecCopy == InitCopy /\ [][NextCopy]_vars

----------------------------------------------------------------------------
(* The same calls on an application whose autosizing label is a child of   *)
(* the manager itself, so that it is packed into the screen buffer.        *)

\* the add() calls of such an application's setup(), in order
PassSetups ==
    { << <<Root, LabelB>>, <<Root, ImageI>>, <<Root, LabelA>> >>,
      << <<Root, LabelA>>, <<Root, LabelB>> >>,
      << <<FrameF, LabelA>>, <<Root, FrameF>>, <<Root, LabelB>> >> }

InitPass ==
    /\ \E wA \in WidthsA, setup \in PassSetups :
          ui = FoldSeq(LAMBDA u, a: add(u, a[1], a[2]),
                       NewObjects(NewManager([n \in Nodes |-> RawObj]), wA),
                       setup)
    /\ result = -1
    /\ ops = 0
    /\ budget = MaxOps
    /\ lastOp = NoOp
    /\ disp = NoDisp
    /\ touch = NoTouch
    /\ pk = NoPack
    /\ lb = NoLabel
    /\ ml = NoLines
    /\ cp = NoCopy
    /\ ev = NoLoop

SpecPass == InitPass /\ [][Next]_vars

----------------------------------------------------------------------------
(* The event loop: setup() ends with updateDisplay(), loop() calls         *)
(* processEvents, which calls resetStatus once and then handles the touch  *)
(* reports that are available, one per iteration of its while loop.  The   *)
(* application is the one of setup(): a label and a button whose callback  *)
(* sets the label's text and returns true.                                 *)

LoopTapNodes == {LabelA, QuoteBtn}

\* quotes = new UiLabel(6, 2, w, 4, "a"),
\* nextQuoteBtn = new UiButton(0, 100, "a", setQuote), both added
InitLoop ==
    /\ \E wA \in WidthsA :
          ui = add(add([NewManager([n \in Nodes |-> RawObj])
                           EXCEPT ![LabelA] = NewLabel(6, 2, wA, 4, "a"),
                                  ![QuoteBtn] = NewButton(0, 100, "a")],
                       Root, LabelA),
                   Root, QuoteBtn)
    /\ result = -1
    /\ ops = 0
    /\ budget = 0
    /\ lastOp = NoOp
    /\ disp = NoDisp
    /\ touch = NoTouch
    /\ pk = NoPack
    /\ lb = NoLabel
    /\ ml = NoLines
    /\ cp = NoCopy
    /\ ev = [NoLoop EXCEPT !.pc = "setup"]

\* setup(), its last statement: mainUi->updateDisplay()
SetupUpdate ==
    /\ ev.pc = "setup"
    /\ ui' = updateDisplay(ui)
    /\ ev' = [ev EXCEPT !.pc = "loop", !.passes = ev.passes + 1]
    /\ UNCHANGED <<result, ops, budget, lastOp, disp, touch, pk, lb, ml, cp>>

\* processEvents up to its while loop: ui->resetStatus()
ProcessEvents ==
    /\ ev.pc = "loop"
    /\ ev.calls < MaxCalls
    /\ ui' = resetStatus(clearPass(ui), Root)
    /\ ev' = [ev EXCEPT !.pc = "poll", !.passes = 0, !.taps = 0,
                        !.calls = ev.calls + 1]
    /\ UNCHANGED <<result, ops, budget, lastOp, disp, touch, pk, lb, ml, cp>>

\* an iteration of the while loop with the finger down: the report is read;
\* one at the point of the last tap is skipped
FingerDown(n, spot) ==
    /\ ev.pc = "poll"
    /\ LET pt == TapPoint(ui, n, spot)
       IN  ev' = [ev EXCEPT !.tp = pt,
                           !.fingerDown = IF pt = ev.lastTp THEN @ ELSE TRUE]
    /\ UNCHANGED <<ui, result, ops, budget, lastOp, disp, touch, pk, lb, ml,
                   cp>>

\* an iteration of the while loop with the finger up after it was down:
\* unless the tap comes within half a second of the last one, touchEvent is
\* called and, when it returns true, updateDisplay
FingerUp(tooSoon) ==
    /\ ev.pc = "poll"
    /\ ev.fingerDown
    /\ ev.taps < MaxTaps
    /\ LET chain == Manager_touchChain(ui, ev.tp[1], ev.tp[2])
           tgt == chain[Len(chain)]
           fires == tgt = QuoteBtn /\ buttonFires(ui, tgt, FALSE)
           u1 == IF fires THEN setText(clearPass(ui), LabelA, "abc")
                 ELSE clearPass(ui)
       IN  IF tooSoon
           THEN /\ ev' = [ev EXCEPT !.fingerDown = FALSE]
                /\ UNCHANGED ui
           ELSE /\ ui' = IF fires THEN updateDisplay(u1) ELSE u1
                /\ ev' = [ev EXCEPT !.fingerDown = FALSE,
                                    !.lastTp = ev.tp,
                                    !.taps = ev.taps + 1,
                                    !.passes = IF fires THEN @ + 1 ELSE @]
    /\ UNCHANGED <<result, ops, budget, lastOp, disp, touch, pk, lb, ml, cp>>

\* no report is available: processEvents goes to sleepUntilTouch and returns
Sleep ==
    /\ ev.pc = "poll"
    /\ ev' = [ev EXCEPT !.pc = "loop"]
    /\ UNCHANGED <<ui, result, ops, budget, lastOp, disp, touch, pk, lb, ml,
                   cp>>

NextLoop ==
    \/ SetupUpdate
    \/ ProcessEvents
    \/ \E n \in LoopTapNodes, spot \in TapSpots : FingerDown(n, spot)
    \/ \E tooSoon \in BOOLEAN : FingerUp(tooSoon)
    \/ Sleep

SpecLoop == InitLoop /\ [][NextLoop]_vars

----------------------------------------------------------------------------
(* The same calls on an application with a label inside a software frame   *)
(* and an image beside the frame, both on the manager                      *)

FramePositions == {<<0, 0>>, <<0, 20>>}
ExposeWidths == {4, 8}

\* new UiLabel(6, 2, w, 4, "a"), new UiLabel(0, 0, "a"),
\* new UiImage(8, 2, 4, 4, bitmap), new UiFrame(x, y, 100, 70)
ExposeObjects(u, wA, pos) ==
    [u EXCEPT ![LabelA] = NewLabel(6, 2, wA, 4, "a"),
              ![LabelB] = NewAutoLabel(0, 0, "a"),
              ![ImageI] = NewImage(8, 2, 4, 4),
              ![FrameF] = NewFrame(pos[1], pos[2], 100, 70)]

\* the add() calls of setup(), in order
ExposeSetup ==
    << <<FrameF, LabelA>>, <<Root, FrameF>>, <<Root, ImageI>> >>

InitExpose ==
    /\ \E wA \in ExposeWidths, pos \in FramePositions :
          ui = FoldSeq(LAMBDA u, a: add(u, a[1], a[2]),
                       ExposeObjects(NewManager([n \in Nodes |-> RawObj]),
                                     wA, pos),
                       ExposeSetup)
    /\ result = -1
    /\ ops = 0
    /\ budget = MaxOps
    /\ lastOp = NoOp
    /\ disp = NoDisp
    /\ touch = NoTouch
    /\ pk = NoPack
    /\ lb = NoLabel
    /\ ml = NoLines
    /\ cp = NoCopy
    /\ ev = NoLoop

SpecExpose == InitExpose /\ [][Next]_vars

----------------------------------------------------------------------------
(* The same calls on an application with a second frame that draws to      *)
(* hardware                                                                *)

HwWidths == {100, 102}

\* new UiLabel(6, 2, 4, 4, "a"), new UiLabel(0, 0, "a"),
\* new UiImage(8, 2, 4, 4, bitmap), new UiFrame(0, 20, w, 70, true, canvas)
HwObjects(u, w) ==
    [u EXCEPT ![LabelA] = NewLabel(6, 2, 4, 4, "a"),
              ![LabelB] = NewAutoLabel(0, 0, "a"),
              ![ImageI] = NewImage(8, 2, 4, 4),
              ![FrameF] = UiFrame_init(UiObjDefault, 0, 20, w, 70, TRUE)]

\* the add() calls of setup(), in order
HwSetup == << <<FrameF, LabelB>>, <<Root, FrameF>>, <<Root, LabelA>> >>

InitHw ==
    /\ \E w \in HwWidths :
          ui = FoldSeq(LAMBDA u, a: add(u, a[1], a[2]),
                       HwObjects(NewManager([n \in Nodes |-> RawObj]), w),
                       HwSetup)
    /\ result = -1
    /\ ops = 0
    /\ budget = MaxOps
    /\ lastOp = NoOp
    /\ disp = NoDisp
    /\ touch = NoTouch
    /\ pk = NoPack
    /\ lb = NoLabel
    /\ ml = NoLines
    /\ cp = NoCopy
    /\ ev = NoLoop

SpecHw == InitHw /\ [][Next]_vars

----------------------------------------------------------------------------
(* The same calls on an application whose second label is constructed with *)
(* UiLabel(), which marks the label uninitialised, and whose first label   *)
(* may be constructed without a buffer                                     *)

\* new UiLabel(6, 2, w, 4, "a", unbuffered), new UiLabel(),
\* new UiImage(8, 2, 4, 4, bitmap), new UiFrame(0, 20, 100, 70)
DefaultObjects(u, wA, unbuf) ==
    [u EXCEPT ![LabelA] = NewLabelWith(6, 2, wA, 4, "a", unbuf),
              ![LabelB] = UiObjDefault,
              ![ImageI] = NewImage(8, 2, 4, 4),
              ![FrameF] = NewFrame(0, 20, 100, 70)]

\* the add() calls of setup(), in order
DefaultSetups ==
    { << <<FrameF, LabelB>>, <<Root, FrameF>>, <<Root, LabelA>> >>,
      << <<Root, LabelB>>, <<Root, FrameF>> >>,
      << <<FrameF, LabelA>>, <<Root, FrameF>>, <<Root, LabelB>> >> }

InitDefault ==
    /\ \E wA \in WidthsA, unbuf \in BOOLEAN, setup \in DefaultSetups :
          ui = FoldSeq(LAMBDA u, a: add(u, a[1], a[2]),
                       DefaultObjects(NewManager([n \in Nodes |-> RawObj]),
                                      wA, unbuf),
                       setup)
    /\ result = -1
    /\ ops = 0
    /\ budget = MaxOps
    /\ lastOp = NoOp
    /\ disp = NoDisp
    /\ touch = NoTouch
    /\ pk = NoPack
    /\ lb = NoLabel
    /\ ml = NoLines
    /\ cp = NoCopy
    /\ ev = NoLoop

SpecDefault == InitDefault /\ [][Next]_vars

----------------------------------------------------------------------------
(* The calls that change what a frame accumulates, with a label moved to   *)
(* positions left of and above its container's origin                      *)

OutsidePositions == {<<0, 0>>, <<-3, 2>>, <<5, -3>>, <<-1, -1>>}

NextOutside ==
    \/ \E n \in MoveNodes, pos \in OutsidePositions : Move(n, pos)
    \/ \E n \in HideNodes : Hide(n)
    \/ \E n \in ShowNodes : Show(n)
    \/ UpdateDisplay
    \/ ResetStatus

SpecOutside == Init /\ [][NextOutside]_vars

----------------------------------------------------------------------------
(* One label hidden, changed and shown again, between render passes and    *)
(* resetStatus calls in any order: UiManager::updateDisplay is called by   *)
(* setup() and after every touch that returns true, resetStatus once per   *)
(* processEvents, so two passes may run with no resetStatus in between.    *)

ShowLabels == {LabelA}

InitShow == InitScene /\ budget = MaxShowOps

NextShow ==
    \/ \E n \in ShowLabels : Hide(n)
    \/ \E n \in ShowLabels, txt \in Texts : SetText(n, txt)
    \/ \E n \in ShowLabels : Show(n)
    \/ UpdateDisplay
    \/ ResetStatus

SpecShow == InitShow /\ [][NextShow]_vars

\* label->preRender()
PreRender(n) ==
    /\ ui' = preRender(clearPass(ui), n)
    /\ AppCall(Op("preRender", n, ZeroArea, FALSE))
    /\ touch' = NoTouch
    /\ UNCHANGED result

\* the same label, drawn ahead of the first pass by preRender()
NextPre ==
    \/ \E n \in ShowLabels : PreRender(n)
    \/ \E n \in ShowLabels, txt \in Texts : SetText(n, txt)
    \/ \E n \in ShowLabels : Hide(n)
    \/ \E n \in ShowLabels : Show(n)
    \/ UpdateDisplay
    \/ ResetStatus

SpecPre == InitShow /\ [][NextPre]_vars

----------------------------------------------------------------------------
(* add() as the class offers it.  The actions of the scene above call add  *)
(* as an application's setup() does, once per object and never with a      *)
(* frame as its own child; UiFrame::add itself tests nothing, and here     *)
(* every frame and object of the application may be its arguments.  The    *)
(* first label is constructed with either value of the constructor's       *)
(* `unbuffered` parameter.                                                 *)

AddFrames == {Root, FrameF}

\* the state after `new UiManager(canvas)` and the constructors of the
\* application's objects, the second label added to the frame
InitAdd ==
    /\ \E wA \in WidthsA, unbuf \in BOOLEAN :
          ui = [UserObjects(NewManager([n \in Nodes |-> RawObj]), wA)
                    EXCEPT ![LabelA] =
                        [NewLabelWith(6, 2, wA, 4, "a", unbuf)
                            EXCEPT !.layer = LAYER_OVERLAY]]
    /\ result = -1
    /\ ops = 0
    /\ budget = MaxAdds
    /\ lastOp = NoOp
    /\ disp = NoDisp
    /\ touch = NoTouch
    /\ pk = NoPack
    /\ lb = NoLabel
    /\ ml = NoLines
    /\ cp = NoCopy
    /\ ev = NoLoop

\* frame->add(obj), any frame and any object
FrameAdd(f, n) ==
    /\ ui' = add(ui, f, n)
    /\ AppCall(Op("add", n, ZeroArea, FALSE))
    /\ UNCHANGED <<result, touch>>

NextAdd == \E f \in AddFrames, n \in UserNodes : FrameAdd(f, n)

SpecAdd == InitAdd /\ [][NextAdd]_vars

----------------------------------------------------------------------------
(* Properties                                                              *)

TypeOK == result \in {-1, 0, 1}

\* b lies inside a
Contains(a, b) ==
    /\ b.x >= a.x /\ b.x + b.width <= a.x + a.width
    /\ b.y >= a.y /\ b.y + b.height <= a.y + a.height

Empty(a) == a.width = 0 \/ a.height = 0

\* the two boxes share a region of positive area
BoxesIntersect(a, b) ==
    /\ Max(a.x, b.x) < Min(a.x + a.width, b.x + b.width)
    /\ Max(a.y, b.y) < Min(a.y + a.height, b.y + b.height)

\* the point lies in the box, edges included
InBounds(a, px, py) ==
    /\ px >= a.x /\ px <= a.x + a.width
    /\ py >= a.y /\ py <= a.y + a.height

\* n is attached below the manager and every container above it is visible
RECURSIVE Shown(_, _)
Shown(u, n) ==
    IF n = Root THEN TRUE
    ELSE /\ u[n].parent # NoNode
         /\ u[u[n].parent].visible
         /\ Shown(u, u[n].parent)

ChildrenOf(u, f) == {u[f].objects[i] : i \in 1..Len(u[f].objects)}

\* c was added to f before d
AddedBefore(u, f, c, d) ==
    \E i, j \in 1..Len(u[f].objects) :
        i < j /\ u[f].objects[i] = c /\ u[f].objects[j] = d

ModalSubtree == {Modal, CloseBtn, TitleBar, Content, OkBtn, CancelBtn}

\* the latest call was a tap
Tapped == touch.chain # <<>>

\* C1: when updateDisplay and resetStatus have run and updateDisplay runs
\* again with no application call in between, the second pass finds the
\* root not updated, computes an empty update area and issues no refresh.
C1_SecondPassClean ==
    disp.seq = 3 =>
        /\ ~disp.rootUpdated
        /\ Empty(ui[Root].updateArea)
        /\ ~disp.refreshed

\* C2: whenever a frame's getUpdateArea accumulates over its children, the
\* rectangle it returns contains the bounds of every child for which
\* isObjectChanged holds.
C2_AreaContainsChanged ==
    \A f \in Frames :
        LET u1 == markBelowHidden(ui, f)
            a == Frame_getUpdateArea(ui, f)[f].updateArea
        IN  (ui[f].subInit /\ isUpdated(ui, f) /\ ~u1[f].visibilityChanged)
            => \A c \in ChildrenOf(ui, f) :
                   isObjectChanged(u1, c) => Contains(a, getArea(ui, c))

\* C3: after hide() on a visible node that is on screen, the update area the
\* manager computes next contains the node's bounds from before the hide, in
\* the manager's coordinates.
C3_HideAreaContainsBounds ==
    (/\ lastOp.op = "updateDisplay"
     /\ disp.after.op = "hide"
     /\ disp.after.flag
     /\ Shown(ui, disp.after.node))
    => Contains(disp.area, disp.after.area)

\* C4: a tap that arrives while the modal is visible reaches no node outside
\* the modal's subtree, and when the point is outside the modal's bounds the
\* tap reaches no node at all, returns false and changes nothing.
C4_ModalExclusive ==
    (Tapped /\ touch.modalShown) =>
        /\ touch.chain[1] = Root
        /\ \A i \in 2..Len(touch.chain) : touch.chain[i] \in ModalSubtree
        /\ ~InBounds(getArea(ui, Modal), touch.x, touch.y) =>
               /\ touch.chain = <<Root>>
               /\ ~touch.ret
               /\ ~touch.changed

\* the modal is up and a tap lands on a visible widget of the manager that
\* lies outside the modal: the widget is not reached
C4_Witness ==
    /\ Tapped
    /\ touch.modalShown
    /\ ~InBounds(getArea(ui, Modal), touch.x, touch.y)
    /\ \E n \in UserNodes :
           /\ ui[n].parent = Root
           /\ ui[n].visible
           /\ InBounds(getArea(ui, n), touch.x, touch.y)
    /\ touch.chain = <<Root>>
    /\ ~touch.ret

\* C5: a tap inside the bounds of a visible modal button while the modal is
\* shown returns true, hides the modal and sets result to 0 for OK and to 1
\* for Cancel.
C5_ButtonTapRunsHandler ==
    \A b \in {OkBtn, CancelBtn} :
        (/\ Tapped
         /\ touch.modalShown
         /\ ui[b].visible
         /\ InBounds(getAbsolutePos(ui, b), touch.x, touch.y))
        => /\ touch.ret
           /\ result = (IF b = OkBtn THEN 0 ELSE 1)
           /\ ~ui[Modal].visible

\* the points of a child's box a tap is tried at
SamplePoints(u, c) ==
    {<<u[c].x + dx, u[c].y + dy>> :
        dx \in {0, u[c].width \div 2, u[c].width},
        dy \in {0, u[c].height \div 2, u[c].height}}

\* C6: when a visible CENTRE child and a visible OVERLAY child of one frame
\* both contain the tapped point, the frame passes the tap to a child on the
\* OVERLAY layer that contains the point, never to the CENTRE child, in
\* either order of addition.
C6_OverlayWins ==
    \A f \in Frames : \A c, o \in ChildrenOf(ui, f) :
        \A pt \in SamplePoints(ui, c) \cup SamplePoints(ui, o) :
            (/\ ui[c].visible /\ ui[c].layer = LAYER_CENTRE
             /\ ui[o].visible /\ ui[o].layer = LAYER_OVERLAY
             /\ InBounds(getArea(ui, c), pt[1], pt[2])
             /\ InBounds(getArea(ui, o), pt[1], pt[2]))
            => LET h == hitChild(ui, f, pt[1], pt[2])
               IN  /\ h \in ChildrenOf(ui, f) \ {c}
                   /\ ui[h].layer = LAYER_OVERLAY
                   /\ ui[h].visible
                   /\ InBounds(getArea(ui, h), pt[1], pt[2])
                   /\ (\A o2 \in ChildrenOf(ui, f) \ {o} :
                          ui[o2].layer # LAYER_OVERLAY) => h = o

\* a tap on a point that the overlay label shares with the image added
\* before it has gone to the label
C6_Witness ==
    /\ Tapped
    /\ Len(touch.chain) >= 2
    /\ touch.chain[Len(touch.chain)] = LabelA
    /\ ui[LabelA].layer = LAYER_OVERLAY
    /\ ui[ImageI].layer = LAYER_CENTRE
    /\ ui[ImageI].visible
    /\ ui[ImageI].parent = ui[LabelA].parent
    /\ AddedBefore(ui, ui[LabelA].parent, ImageI, LabelA)
    /\ InBounds(getAbsolutePos(ui, ImageI), touch.x, touch.y)

\* the low four bits of every pixel of a row
LowNibbles(row) == [i \in 1..Len(row) |-> row[i] % 16]

\* every byte split into its high and its low nibble
Unpack(out) ==
    [i \in 1..(2 * Len(out)) |->
        IF i % 2 = 1 THEN out[(i + 1) \div 2] \div 16 ELSE out[i \div 2] % 16]

\* C7: for a row of even width packToGrey writes one byte per pixel pair,
\* and splitting the bytes into nibbles gives back the low four bits of the
\* source pixels in order; the row 0,15,3,12,7,8,1,14 packs to 0x0F, 0x3C,
\* 0x78, 0x1E.
C7_PackRoundTrip ==
    pk.done =>
        /\ 2 * Len(pk.out) = Len(pk.row)
        /\ \A k \in 1..Len(pk.out) : pk.out[k] \in 0..255
        /\ Unpack(pk.out) = LowNibbles(pk.row)
        /\ pk.row = ExampleRow => pk.out = <<15, 60, 120, 30>>

\* the example row has been packed
C7_Witness ==
    /\ pk.done
    /\ pk.row = ExampleRow
    /\ pk.out = <<15, 60, 120, 30>>

\* C8: the autosizing constructor sizes the label to the measured extent
\* plus twice the padding plus twice the outline thickness, and with width
\* 20 and font height 14 the defaults (padding 10, outline thickness 1) give
\* a buffer 42 wide and 36 tall.
C8_AutosizeDefaults ==
    lb.done =>
        /\ ~lb.obj.unbuffered
        /\ lb.obj.width
               = lb.tw + 2 * lb.obj.xPad + 2 * lb.obj.outlineThickness
        /\ lb.obj.height
               = lb.fh + 2 * lb.obj.yPad + 2 * lb.obj.outlineThickness
        /\ (lb.tw = 20 /\ lb.fh = 14) =>
               /\ lb.obj.xPad = 10 /\ lb.obj.yPad = 10
               /\ lb.obj.outlineThickness = 1
               /\ lb.obj.width = 42
               /\ lb.obj.height = 36

\* C9: the update area a node computes lies inside the node's own bounds in
\* local coordinates.
C9_AreaInsideOwnBounds ==
    \A n \in Nodes :
        LET a == getUpdateArea(ui, n)[n].updateArea
        IN  /\ a.x >= 0 /\ a.y >= 0
            /\ a.x + a.width <= ui[n].width
            /\ a.y + a.height <= ui[n].height

\* h has just become hidden
JustHidden(u, h) ==
    u[h].initialised /\ u[h].visibilityChanged /\ ~u[h].visible

\* s is a visible sibling of the just-hidden h in f and their boxes overlap
Uncovered(u, f, h, s) ==
    /\ u[f].subInit
    /\ h \in ChildrenOf(u, f) /\ s \in ChildrenOf(u, f) /\ h # s
    /\ JustHidden(u, h)
    /\ u[s].visible
    /\ BoxesIntersect(getArea(u, h), getArea(u, s))

\* the frame's getUpdateArea marks every uncovered sibling
C10_Marked ==
    \A f \in Frames : \A h, s \in Nodes :
        Uncovered(ui, f, h, s)
            => Frame_getUpdateArea(ui, f)[s].visibilityChanged

\* an updateDisplay that renders the frame pushes the surface of every
\* uncovered sibling
C10_Pushed ==
    lastOp'.op = "updateDisplay" =>
        \A f \in Frames : \A h, s \in Nodes :
            (Uncovered(ui, f, h, s) /\ ui[f].visible /\ Shown(ui, f))
                => /\ ui'[s].visibilityChanged
                   /\ ui'[s].pushed # "none"

\* C10: when a child of a frame has just become hidden, the frame's
\* getUpdateArea marks every visible sibling whose box overlaps the hidden
\* child's box as visibilityChanged, and the render pass that follows packs
\* or copies each such sibling.
C10_OverlappedSiblingsRepainted == []C10_Marked /\ [][C10_Pushed]_vars

\* the image was hidden after a complete frame; the next updateDisplay has
\* marked the label that overlaps it and pushed the label's surface without
\* drawing it again
C10_Witness ==
    /\ lastOp.op = "updateDisplay"
    /\ disp.after.op = "hide"
    /\ disp.after.node = ImageI
    /\ disp.after.flag
    /\ ui[LabelA].parent = ui[ImageI].parent
    /\ ui[LabelA].parent # NoNode
    /\ BoxesIntersect(getArea(ui, ImageI), getArea(ui, LabelA))
    /\ ui[LabelA].visible
    /\ ui[LabelA].visibilityChanged
    /\ ui[LabelA].drawCalls = 0
    /\ ui[LabelA].pushed # "none"

\* C11: after move() on a visible node attached to a container, the update
\* area the manager computes next contains the node's bounds from before the
\* move and its bounds after it, in the manager's coordinates.
C11_MoveAreaContainsOldAndNew ==
    (/\ lastOp.op = "updateDisplay"
     /\ disp.after.op = "move"
     /\ disp.after.flag
     /\ ~Empty(disp.after.area)
     /\ Shown(ui, disp.after.node))
    => /\ Contains(disp.area, disp.after.area)
       /\ Contains(disp.area, getAbsolutePos(ui, disp.after.node))

\* the calls updateDisplay has made to the panel
PanelCalls == SelectSeq(disp.calls, LAMBDA c : c.call # "lastDisplayUpdate")

\* C12: updateDisplay writes and refreshes the panel exactly when the root's
\* update area after rendering is non-empty, the rectangle of every such call
\* is that update area, and lastDisplayUpdate is assigned only after the
\* refresh calls and not at all when the area is empty.
C12_RefreshIffAreaNonEmpty ==
    lastOp.op = "updateDisplay" =>
        /\ disp.refreshed <=> ~Empty(ui[Root].updateArea)
        /\ disp.refreshed <=> PanelCalls # <<>>
        /\ \A i \in 1..Len(PanelCalls) :
               PanelCalls[i].rect = ui[Root].updateArea
        /\ \A i \in 1..Len(disp.calls) :
               disp.calls[i].call = "lastDisplayUpdate" =>
                   /\ disp.refreshed
                   /\ i = Len(disp.calls)
                   /\ \E j \in 1..(i - 1) : disp.calls[j].call = "UpdateArea"
        /\ Empty(ui[Root].updateArea) => disp.calls = <<>>

\* a pass with a non-empty update area: the rectangle is written, refreshed
\* twice and the time of the refresh recorded
C12_Witness ==
    /\ lastOp.op = "updateDisplay"
    /\ ~Empty(ui[Root].updateArea)
    /\ Len(disp.calls) = 4
    /\ disp.calls[1] = [call |-> "WritePartGram4bpp",
                        rect |-> ui[Root].updateArea]
    /\ disp.calls[4].call = "lastDisplayUpdate"

\* the points a frame's dispatch is tried at: the first and the last point
\* of every child's bounds, its centre, and a point outside every child
FramePoints(u, f) ==
    {<<u[c].x + (u[c].width * k) \div 2, u[c].y + (u[c].height * k) \div 2>> :
        c \in ChildrenOf(u, f), k \in 0..2} \cup {<<-1, -1>>}

\* the visible children of f whose bounds contain the point
Candidates(u, f, px, py) ==
    {c \in ChildrenOf(u, f) :
        u[c].visible /\ InBounds(getArea(u, c), px, py)}

\* the candidates on the highest layer that has one, added before every other
\* candidate of that layer
FirstOnTop(u, f, px, py) ==
    LET cands == Candidates(u, f, px, py)
    IN  {c \in cands :
            \A d \in cands \ {c} :
                \/ u[d].layer < u[c].layer
                \/ u[d].layer = u[c].layer /\ AddedBefore(u, f, c, d)}

\* C13: UiFrame::touchEvent(x, y) passes the event to exactly one child, the
\* first in insertion order on the highest layer that has a visible child
\* whose bounds contain (x, y), with the coordinates (x - child.x,
\* y - child.y); when no visible child contains the point, or the frame is
\* not initialised, it calls no child and returns false.
C13_FrameTouchDelivery ==
    /\ \A f \in Frames : \A pt \in FramePoints(ui, f) :
          LET px == pt[1]
              py == pt[2]
              h == hitChild(ui, f, px, py)
              args == touchArgs(ui, f, px, py)
              off == touchChain([ui EXCEPT ![f].subInit = FALSE], f, px, py)
              top == FirstOnTop(ui, f, px, py)
          IN  /\ top = {} =>
                    /\ Candidates(ui, f, px, py) = {}
                    /\ h = NoNode
                    /\ touchChain(ui, f, px, py) = <<f>>
                    /\ \A b \in BOOLEAN : ~buttonFires(ui, f, b)
              /\ top # {} =>
                    /\ top = {h}
                    /\ args[1] = <<px, py>>
                    /\ args[2] = <<px - ui[h].x, py - ui[h].y>>
              /\ off = <<f>>
    /\ Tapped =>
          /\ Len(touch.args) = Len(touch.chain)
          /\ \A i \in 2..Len(touch.chain) :
                touch.args[i] =
                    <<touch.args[i - 1][1] - ui[touch.chain[i]].x,
                      touch.args[i - 1][2] - ui[touch.chain[i]].y>>
          /\ IsFrame(touch.chain[Len(touch.chain)]) => ~touch.ret

\* a tap inside the application's frame went to the frame's label with the
\* coordinates counted from the label's corner, although the frame was added
\* at an offset
C13_Witness ==
    /\ Tapped
    /\ Len(touch.chain) = 3
    /\ touch.chain[2] = FrameF
    /\ touch.chain[3] = LabelB
    /\ ui[FrameF].y > 0
    /\ touch.args[3] = <<touch.x - ui[FrameF].x - ui[LabelB].x,
                         touch.y - ui[FrameF].y - ui[LabelB].y>>
    /\ touch.args[3] # touch.args[1]

\* C14: whatever the modal's state was, msgbox() leaves the modal visible,
\* result == -1, the OK button visible and the Cancel button hidden, and
\* confirm() leaves the modal visible, result == -1 and both buttons visible.
C14_ModalButtons ==
    /\ lastOp.op = "msgbox" =>
          /\ ui[Modal].visible
          /\ result = -1
          /\ ui[OkBtn].visible
          /\ ~ui[CancelBtn].visible
    /\ lastOp.op = "confirm" =>
          /\ ui[Modal].visible
          /\ result = -1
          /\ ui[OkBtn].visible
          /\ ui[CancelBtn].visible

\* msgbox() called on a modal that confirm() had set up with both buttons:
\* the Cancel button, still where confirm() moved it, is hidden
C14_Witness ==
    /\ lastOp.op = "msgbox"
    /\ ops = 2
    /\ ui[CancelBtn].x = CDiv(ModalWidth, 2)
    /\ ~ui[CancelBtn].visible
    /\ ui[OkBtn].visible
    /\ ui[Modal].visible

\* the places n occupies in the child lists of the frames
Places(u, n) ==
    {p \in Frames \X (1..Cardinality(Nodes)) :
        p[2] <= Len(u[p[1]].objects) /\ u[p[1]].objects[p[2]] = n}

\* the node reached from n by following parent k times (NoNode: the chain
\* ended before)
RECURSIVE Up(_, _, _)
Up(u, n, k) ==
    IF k = 0 \/ n = NoNode THEN n ELSE Up(u, u[n].parent, k - 1)

\* C15: after any sequence of UiFrame::add calls every node is in at most
\* one frame's child list, that frame is the node's parent, and following
\* parent from any node ends (the parent chain has no cycle).
C15_SingleParentTree ==
    \A n \in Nodes :
        /\ Cardinality(Places(ui, n)) <= 1
        /\ \A f \in Frames : n \in ChildrenOf(ui, f) => ui[n].parent = f
        /\ Up(ui, n, Cardinality(Nodes)) = NoNode

\* C18: a node with hardwareDraw true is unbuffered, and it is the root or
\* every container above it is a hardware frame: it is never the child of a
\* buffered container.
C18_HardwareDrawPlacement ==
    \A n \in Nodes :
        ui[n].hardwareDraw =>
            /\ ui[n].unbuffered
            /\ ui[n].parent # NoNode =>
                  /\ ui[ui[n].parent].unbuffered
                  /\ ui[ui[n].parent].hwFrame
                  /\ ui[ui[n].parent].hardwareDraw

\* n is hidden and setText was the latest application call, made on n while
\* it was hidden, with at most one render pass since
MutatedHidden(n) ==
    /\ ~ui[n].visible
    /\ \/ lastOp.op = "setText" /\ lastOp.node = n
       \/ /\ lastOp.op = "updateDisplay"
          /\ disp.after.op = "setText"
          /\ disp.after.node = n

\* a hidden, just changed label is not drawn by a render pass and is still
\* changed after the pass or the resetStatus that follows the change
C16_Kept ==
    \A n \in ShowLabels :
        (MutatedHidden(n) /\ lastOp'.op \in {"updateDisplay", "resetStatus"})
        => ui'[n].updated /\ ui'[n].drawCalls = 0

\* the first render pass after show() of a hidden, changed label calls its
\* draw()
C16_Drawn ==
    (/\ lastOp.op = "updateDisplay"
     /\ disp.after.op = "show"
     /\ disp.after.flag
     /\ Shown(ui, disp.after.node))
    => ui[disp.after.node].drawCalls = 1

\* C16: a node changed by setText while it is hidden keeps its changed flag
\* over the render passes and resetStatus calls in which it is not drawn, and
\* the first render pass after show() calls its draw().
C16_HiddenChangeDrawn == [][C16_Kept]_vars /\ []C16_Drawn

\* one of the five conditions holds for n: its visibility changed, it has a
\* new parent, it reports an update, it was exposed, or its container's
\* visibility changed
PushCondition(u, n) ==
    \E k \in 1..5 :
        CASE k = 1 -> u[n].visibilityChanged
          [] k = 2 -> u[n].newParent
          [] k = 3 -> isUpdated(u, n)
          [] k = 4 -> u[n].exposed
          [] k = 5 -> u[n].parent # NoNode /\ u[u[n].parent].visibilityChanged

\* C17: visualChange() is true exactly when visibilityChanged, newParent,
\* isUpdated(), exposed or the container's visibilityChanged is true, and a
\* render pass copies or packs a node's surface only when it is true.
C17_VisualChangeGatesPush ==
    \A n \in Nodes :
        /\ visualChange(ui, n) <=> PushCondition(ui, n)
        /\ (lastOp.op = "updateDisplay" /\ ui[n].pushed # "none")
              => PushCondition(ui, n)

\* a pass pushed a node for which only the exposed flag was set
C17_Witness ==
    /\ lastOp.op = "updateDisplay"
    /\ \E n \in Nodes :
          /\ ui[n].pushed # "none"
          /\ ui[n].exposed
          /\ ~ui[n].visibilityChanged
          /\ ~ui[n].newParent
          /\ ~isUpdated(ui, n)
          /\ ~(ui[n].parent # NoNode /\ ui[ui[n].parent].visibilityChanged)

\* a render() that got past its test of initialised and visible has set drawn
C19_Drawn ==
    lastOp.op = "updateDisplay" =>
        \A n \in Nodes : ui[n].renderCalls = 1 => ui[n].drawn

\* the resetStatus after the pass clears the flags of the rendered nodes
C19_Cleared ==
    (lastOp.op = "updateDisplay" /\ lastOp'.op = "resetStatus") =>
        \A n \in Nodes :
            ui[n].renderCalls = 1 =>
                /\ ~ui'[n].updated
                /\ ~ui'[n].exposed
                /\ IsFrame(n) => ~ui'[n].itemsChanged

\* C19: every render() of an initialised, visible node ends with drawn ==
\* true on every path, so the resetStatus that follows clears the node's
\* updated, exposed and itemsChanged flags.
C19_RenderSetsDrawn == []C19_Drawn /\ [][C19_Cleared]_vars

\* C20: after a render pass in which a buffered frame was redrawn, the
\* frame's surface holds the pixels of every visible child that lies inside
\* the frame, at the child's offset, the children that did not change
\* included.
C20_FrameHoldsChildren ==
    lastOp.op = "updateDisplay" =>
        \A f \in Frames :
            (~ui[f].unbuffered /\ ui[f].drawCalls = 1) =>
                \A c \in ChildrenOf(ui, f) :
                    (/\ ui[c].visible
                     /\ ~ui[c].unbuffered
                     /\ Contains(Area(0, 0, ui[f].width, ui[f].height),
                                 getArea(ui, c)))
                    => [node |-> c, x |-> ui[c].x, y |-> ui[c].y]
                           \in ui[f].holds

\* UiObj::packToGrey, the index of the first and of the last byte written
\* for row y of the render area of n
RowFirst(u, n, y) ==
    CDiv((y + u[n].y - u[n].packTop.y) * u[n].packTop.width
             + u[n].x - u[n].packTop.x, 2)

RowLast(u, n, y) == RowFirst(u, n, y) + (u[n].packArea.width + 1) \div 2 - 1

\* the bytes of row y of n lie in the screen buffer and inside the row of
\* the top area in which that row of the node is
RowInside(u, n, y) ==
    LET top == u[n].packTop
        r == y + getAbsolutePos(u, n).y - top.y
    IN  /\ RowFirst(u, n, y) >= 0
        /\ RowLast(u, n, y) < (top.width * top.height) \div 2
        /\ r >= 0 /\ r < top.height
        /\ RowFirst(u, n, y) >= (r * top.width) \div 2
        /\ RowLast(u, n, y) < ((r + 1) * top.width) \div 2

\* C21: every byte index packToGrey writes during a render pass is in
\* [0, top.width * top.height / 2), top being the root's update area of the
\* pass, and the bytes of each row of a node are inside the matching row of
\* that area, for every node that is packed, those packed only because they
\* were exposed or their container's visibility changed included.
C21_PackInsideTopArea ==
    lastOp.op = "updateDisplay" =>
        \A n \in Nodes :
            ui[n].pushed = "pack" =>
                \A y \in {0, ui[n].packArea.height - 1} : RowInside(ui, n, y)

\* the pixels of the refreshed rectangle that are looked at: its four corner
\* pixels and the first pixel of every child of the manager that lies in it
PassPoints(u) ==
    LET R == u[Root].updateArea
    IN  {pt \in {<<R.x, R.y>>, <<R.x + R.width - 1, R.y>>,
                 <<R.x, R.y + R.height - 1>>,
                 <<R.x + R.width - 1, R.y + R.height - 1>>}
                \cup {<<u[c].x, u[c].y>> : c \in ChildrenOf(u, Root)} :
            /\ pt[1] >= R.x /\ pt[1] < R.x + R.width
            /\ pt[2] >= R.y /\ pt[2] < R.y + R.height}

\* the visible child c of the manager has a pixel at pt
Covers(u, c, pt) ==
    /\ u[c].visible
    /\ pt[1] >= u[c].x /\ pt[1] < u[c].x + u[c].width
    /\ pt[2] >= u[c].y /\ pt[2] < u[c].y + u[c].height

\* c was packed in this pass and the rows and columns it wrote reach pt
Written(u, c, pt) ==
    /\ u[c].pushed = "pack"
    /\ pt[1] < u[c].x + u[c].packArea.width
    /\ pt[2] < u[c].y + u[c].packArea.height

\* C22: after updateDisplay has issued a refresh of rectangle R, every pixel
\* of R in the screen buffer was written during that pass by the topmost
\* visible node covering it (the last such node in paint order): no pixel of
\* R is left from an earlier pass, and none comes from a node below an
\* unchanged higher node.
C22_RefreshedPixelsCurrent ==
    (lastOp.op = "updateDisplay" /\ disp.refreshed) =>
        \A pt \in PassPoints(ui) :
            LET cov == SelectSeq(drawOrder(ui, Root),
                                 LAMBDA c : Covers(ui, c, pt))
            IN  /\ cov # <<>>
                /\ Written(ui, cov[Len(cov)], pt)

\* C23: within one updateDisplay the root's update area is one rectangle:
\* the one read as origin and row stride while the children are packed is
\* the one passed to the refresh, also when an autosizing label changes its
\* width and height in its draw().
C23_RootAreaStable ==
    lastOp.op = "updateDisplay" =>
        \A n \in Nodes :
            ui[n].pushed = "pack" => ui[n].packTop = ui[Root].updateArea

\* C24: for every text and label width each lineLimit call returns an index
\* greater than the offset it was called with (a line without a space is
\* broken at a character, the text after a newline is consumed), so the line
\* loops of drawMultilineText and getMultilineHeight end after at most
\* text.length() lines.
C24_LineLimitAdvances ==
    ml.lines > 0 =>
        /\ ml.lineEnd > ml.from
        /\ ml.lines <= Len(ml.text)

\* C25: for any child position, the child partly or wholly outside the
\* container on any side included, every row copied by copyToParent has a
\* length that is not negative, starts in the container's buffer, stays in
\* the one row of the container it belongs to, and writes nothing before
\* the container's left or top edge or past its right or bottom edge.
C25_CopyInsideParent ==
    cp.rows > 0 =>
        LET y == cp.row - 1 + cp.y
        IN  /\ cp.len >= 0
            /\ y >= 0 /\ y < cp.ph
            /\ cp.first >= y * cp.pw
            /\ cp.first + cp.len <= (y + 1) * cp.pw

\* the nodes reached from the nodes of S through the child lists
RECURSIVE Closure(_, _)
Closure(u, S) ==
    LET T == S \cup UNION {ChildrenOf(u, f) : f \in S}
    IN  IF T = S THEN S ELSE Closure(u, T)

Subtree(u, f) == Closure(u, {f})

\* C26: resetStatus on a frame leaves every node of the frame's subtree with
\* visibilityChanged, newParent and drawn false; the node's updated, exposed
\* and itemsChanged flags are cleared when its drawn flag was true at the
\* call and keep their values when it was false.
C26_ResetStatusFlags ==
    [][lastOp'.op = "resetStatus" =>
        \A n \in Subtree(ui, Root) :
            /\ ~ui'[n].visibilityChanged
            /\ ~ui'[n].newParent
            /\ ~ui'[n].drawn
            /\ IF ui[n].drawn
               THEN /\ ~ui'[n].updated
                    /\ ~ui'[n].exposed
                    /\ ~ui'[n].itemsChanged
               ELSE /\ ui'[n].updated = ui[n].updated
                    /\ ui'[n].exposed = ui[n].exposed
                    /\ ui'[n].itemsChanged = ui[n].itemsChanged]_vars

\* resetStatus has run after a pass that drew one node of the tree and left
\* another, still marked updated, undrawn
C26_Witness ==
    /\ lastOp.op = "resetStatus"
    /\ disp.seq = 2
    /\ \E n, m \in Subtree(ui, Root) \ ModalSubtree :
          /\ ui[n].updated /\ ~ui[n].visible
          /\ ~ui[m].updated /\ ui[m].visible

\* the nearest ancestor-or-self of f that draws to hardware or has no
\* container
RECURSIVE HardwareAncestor(_, _)
HardwareAncestor(u, f) ==
    IF u[f].hwFrame \/ u[f].parent = NoNode THEN f
    ELSE HardwareAncestor(u, u[f].parent)

\* rectangle a of f's coordinates in the coordinates of f's ancestor h
RECURSIVE InAncestor(_, _, _, _)
InAncestor(u, f, h, a) ==
    IF f = h THEN a
    ELSE InAncestor(u, u[f].parent, h,
                    Area(a.x + u[f].x, a.y + u[f].y, a.width, a.height))

\* C27: expose(rect) on a frame that neither draws to hardware nor is the
\* root is forwarded to the frame's container and upward to the nearest
\* hardware-backed ancestor, which marks as exposed its visible children
\* lying fully inside rect.  Checked on move(), whose first call is
\* parent->expose(getArea()).
C27_ExposeBubbles ==
    [][(lastOp'.op = "move" /\ lastOp'.flag) =>
        LET n == lastOp'.node
            f == ui[n].parent
            h == HardwareAncestor(ui, f)
            rect == InAncestor(ui, f, h, getArea(ui, n))
        IN  (IsFrame(f) /\ ~ui[f].hwFrame /\ ui[f].parent # NoNode) =>
                \A c \in ChildrenOf(ui, h) :
                    (ui[c].visible /\ withinArea(ui, rect, c)) =>
                        ui'[c].exposed]_vars

\* C28: in the event loop every updateDisplay is followed by a resetStatus
\* of the whole tree before the next updateDisplay begins, also when several
\* touch events are handled in one processEvents call: at no time have two
\* render passes run since the last resetStatus.
C28_ResetBetweenPasses == ev.passes <= 1

\* the number of places of sequence s that hold e
Occurrences(s, e) == Cardinality({i \in 1..Len(s) : s[i] = e})

\* C29: within one UiFrame::draw, render() is invoked on the frame's visible
\* children in ascending layer order and, within a layer, in the order they
\* were added; every visible child is rendered exactly once and no invisible
\* child is rendered.
C29_RenderOrder ==
    \A f \in Frames :
        ui[f].drawCalls = 1 /\ ui[f].subInit =>
            LET log == ui[f].rendered
            IN  /\ \A c \in ChildrenOf(ui, f) :
                       Occurrences(log, c) = IF ui[c].visible THEN 1 ELSE 0
                /\ \A i \in 1..Len(log) : log[i] \in ChildrenOf(ui, f)
                /\ \A i, j \in 1..Len(log) :
                       i < j =>
                           \/ ui[log[i]].layer < ui[log[j]].layer
                           \/ /\ ui[log[i]].layer = ui[log[j]].layer
                              /\ AddedBefore(ui, f, log[i], log[j])

\* a frame was drawn whose loop rendered a child of a lower layer before a
\* child added earlier, rendered two children of one layer, and passed over
\* an invisible child
C29_Witness ==
    \E f \in Frames :
        /\ ui[f].drawCalls = 1
        /\ \E i, j \in 1..Len(ui[f].rendered) :
              /\ i < j
              /\ AddedBefore(ui, f, ui[f].rendered[j], ui[f].rendered[i])
        /\ \E i, j \in 1..Len(ui[f].rendered) :
              /\ i < j
              /\ ui[ui[f].rendered[i]].layer = ui[ui[f].rendered[j]].layer
        /\ \E c \in ChildrenOf(ui, f) : ~ui[c].visible

\* C30: for a leaf node (label, button or image) getUpdateArea gives the
\* node's own full width and height when isUpdated() is true and a rectangle
\* of zero width and height when isUpdated() is false.  Checked on the nodes
\* render() called getUpdateArea on in the pass just made; the pass leaves
\* what isUpdated() reports as it was.
C30_LeafUpdateArea ==
    \A n \in Nodes :
        (~IsFrame(n) /\ ui[n].renderCalls = 1) =>
            IF isUpdated(ui, n)
            THEN ui[n].updateArea.width = ui[n].width \/ ui[n].autosize
            ELSE /\ ui[n].updateArea.width = 0
                 /\ ui[n].updateArea.height = 0

\* C31: every update area getUpdateArea computes for a frame that draws
\* directly to hardware has a width that is a multiple of 4, on every return
\* path of the function.
C31_HardwareWidthAligned ==
    \A f \in Frames : ui[f].hwFrame => ui[f].updateArea.width % 4 = 0

\* no child of f counts as changed for f's accumulation
NoChildChanged(u, f) ==
    \A c \in ChildrenOf(u, f) : ~isObjectChanged(u, c)

\* C32: the rectangle UiFrame::getUpdateArea returns never has a negative x,
\* y, width or height; it has zero width and height when the frame is
\* unchanged (with no changed child), and when the frame is changed and its
\* accumulation finds no child that qualifies.
C32_FrameAreaNotNegative ==
    \A f \in Frames :
        ui[f].subInit =>
            LET a == Frame_getUpdateArea(ui, f)[f].updateArea
            IN  /\ a.x >= 0 /\ a.y >= 0 /\ a.width >= 0 /\ a.height >= 0
                /\ ~isUpdated(ui, f) => a.width = 0 /\ a.height = 0
                /\ (/\ isUpdated(ui, f)
                    /\ ~ui[f].visibilityChanged
                    /\ NoChildChanged(ui, f)) => a.width = 0 /\ a.height = 0

\* a frame is changed (its child list changed and it was not drawn since)
\* while none of its children counts as changed: the accumulation finds
\* nothing
C32_Witness ==
    \E f \in Frames :
        /\ ui[f].subInit /\ isUpdated(ui, f) /\ ~ui[f].visibilityChanged
        /\ NoChildChanged(ui, f)

\* C33: a render pass is a no-op on every node that is uninitialised (the
\* flag its own class sets, default-constructed labels, frames and images
\* included) or not visible: neither draw() nor a copy or pack step runs for
\* it, and its drawn flag, its update area and what its surface holds are
\* unchanged.
C33_RenderSkipsUninitialised ==
    [][lastOp'.op = "updateDisplay" =>
        \A n \in Nodes :
            (~ui[n].subInit \/ ~ui[n].visible) =>
                /\ ui'[n].drawCalls = 0
                /\ ui'[n].pushed = "none"
                /\ ui'[n].drawn = ui[n].drawn
                /\ ui'[n].updateArea = ui[n].updateArea
                /\ ui'[n].holds = ui[n].holds]_vars

\* copyToParent ran its memcpy for n with a positive length
CopiedRows(u, n) ==
    /\ u[n].pushed = "copy"
    /\ Min(u[n].height, u[u[n].parent].height - u[n].y) > 0
    /\ Min(u[n].width, u[u[n].parent].width - u[n].x) > 0

\* C34: when a node's own surface or its container's surface is unallocated
\* the copy and pack steps of render() return without reading or writing a
\* buffer: neither packToGrey nor the memcpy of copyToParent runs for the
\* node.
C34_MissingSurfaceSkipped ==
    \A n \in Nodes :
        (\/ ui[n].unbuffered
         \/ (ui[n].parent # NoNode /\ ~ui[ui[n].parent].hardwareDraw
                /\ ui[ui[n].parent].unbuffered)) =>
            /\ ui[n].pushed # "pack"
            /\ ~CopiedRows(ui, n)

\* UiObj::packToGrey, the lowest and the highest index of the node's own
\* buffer read for the render area of n: each step of the inner loop reads
\* the pixel at the offset and the one after it
ReadFirst(u, n) == u[n].packArea.y * u[n].width + u[n].packArea.x

ReadLast(u, n) ==
    (u[n].packArea.height - 1 + u[n].packArea.y) * u[n].width
        + u[n].packArea.x + 2 * ((u[n].packArea.width - 1) \div 2) + 1

\* C35: every index of the node's own surface that packToGrey reads is in
\* 0 .. width * height - 1, for every update area a node computes, image
\* nodes at a position other than (0, 0) and update areas of odd width
\* included.
C35_PackReadsInsideSurface ==
    \A n \in Nodes :
        ui[n].pushed = "pack" =>
            /\ ReadFirst(ui, n) >= 0
            /\ ReadLast(ui, n) < ui[n].width * ui[n].height

\* C36: in every state reached through msgbox(), confirm() and taps the
\* modal's result is -1, 0 or 1 and is -1 while the modal is visible, and a
\* step that takes result away from -1 leaves the modal hidden.
C36_ModalResult ==
    /\ [](result \in {-1, 0, 1} /\ (ui[Modal].visible => result = -1))
    /\ [][(result = -1 /\ result' # -1) => ~ui'[Modal].visible]_vars

\* confirm() opened the modal and a tap on its Cancel button closed it
C36_Witness ==
    /\ lastOp.op = "touch"
    /\ touch.modalShown
    /\ touch.ret
    /\ result = 1
    /\ ~ui[Modal].visible

\* C37: no change of a label's text is lost: after a render pass in which
\* the label is visible its surface shows the text of the latest setText,
\* also when setText was called after preRender() and before the first pass.
C37_TextShown ==
    lastOp.op = "updateDisplay" =>
        \A n \in ShowLabels :
            (ui[n].visible /\ Shown(ui, n) /\ ~ui[n].unbuffered)
            => ui[n].shows = ui[n].text

====
